---- MODULE Spec2Model ----
(***************************************************************************)
(* A model of the changelog pipeline of gitstring: the commit classifier   *)
(* (lib/changelogLogic.ts), the commit source adapter (lib/gitApi.ts) and  *)
(* the changelog generation route (app/api/changelog/generate/route.ts).   *)
(* Strings the code inspects are sequences of one-character strings, so    *)
(* that lower-casing, substring search and the prefix pattern are computed *)
(* the way the code computes them.                                         *)
(***************************************************************************)
EXTENDS Integers, Sequences, FiniteSets, TLC

VARIABLES
    \* groupCommitsByType
    commits,        \* the input GitCommit[]
    result,         \* what the call gave: the CommitGroup[] or the exception
    gpc,            \* "idle", "call", "done" or "threw"
    \* fetchGitHubCommits / fetchGitLabCommits
    call,           \* the arguments of the adapter call
    apc,            \* "idle", "primary", "details", "returned" or "threw"
    primaryStatus,  \* the answer to the list/compare request
    primary,        \* the shas of the primary response, in its order
    detail,         \* per position: the answer to the detail request
    enriched,       \* per position: the slot of the Promise.all result
    issued,         \* the shas detail requests were sent for, in order
    arrivals,       \* the positions in the order their details arrived
    \* POST /api/changelog/generate
    rpc,            \* where the request in flight is suspended, or "idle"
    req,            \* the request: user, repoId, startRef, endRef, useAi
    rcommits,       \* the route's commits
    rgroups,        \* the route's groups
    renderer,       \* the renderer that made markdown: "none", "rule", "ai"
    response,       \* the response to the request: status and error
    commitCache,    \* the process-wide commit cache: its entries, the
                    \* least recently used first
    changelogs,     \* the rows of the changelogs table
    openaiKey,      \* process.env.OPENAI_API_KEY is set
    handled,        \* requests received so far
    atStart         \* the cache and the table when the request came in

groupVars == <<commits, result, gpc>>

fetchVars ==
    <<call, apc, primaryStatus, primary, detail, enriched, issued, arrivals>>

routeVars ==
    <<rpc, req, rcommits, rgroups, renderer, response, commitCache, changelogs,
      openaiKey, handled, atStart>>

VARIABLES
    \* generateCacheKey
    kin,            \* the prefix and one parameter object in two field orders
    kpc,            \* "idle", "start", "stored" or "done"
    kstore,         \* the keys a set was made under
    kgot            \* what the get computed and found

keyVars == <<kin, kpc, kstore, kgot>>

VARIABLES
    \* the cache layer
    now,              \* the clock, in milliseconds
    repoCache,        \* the process-wide repository-list cache
    changelogCache,   \* the process-wide changelog cache
    tokenHealthCache, \* the process-wide token-health cache
    \* calls of the cache wrappers
    inst,             \* the instance the calls are made on
    nops,             \* calls and clock steps so far
    cop,              \* the last call and what it returned
    hist              \* per key: when it was set, its value, its last use

cacheVars ==
    <<now, repoCache, changelogCache, tokenHealthCache, inst, nops, cop, hist>>

VARIABLES
    \* the tables
    repos,            \* the rows of the repos table
    tokens,           \* provider_tokens: per user and provider, the number of
                      \* the token saved last, 0 when there is none
    \* the other handlers: where each is suspended, its request, its answer
    discover,         \* GET /api/repos/discover
    connect,          \* POST and DELETE /api/repos
    tokenPost,        \* POST /api/provider-tokens
    health,           \* validateTokenHealth
    export,           \* GET /api/changelog/export
    \* bookkeeping of the properties
    lookup,           \* the last cache lookup a handler made
    owed,             \* users and providers whose repository list changed
                      \* and was not stored again since
    stale             \* keys the caches held when their subject changed and
                      \* that were not stored again since; for the
                      \* repository lists, keys stored with a list that had
                      \* arrived before an invalidation of the key

apiVars ==
    <<repos, tokens, discover, connect, tokenPost, health, export, lookup,
      owed, stale>>

VARIABLES
    \* the rate limiter
    rateLimitStore,   \* per identifier: count and resetTime
    verdict,          \* the answer to the request of the followed client
                      \* that a limiter has just handled, and the count of
                      \* the window that was over when it came
    \* bookkeeping of the properties
    through,          \* the client and the limiter that are followed, the
                      \* requests of the client that the limiter counted in
                      \* the stored window, and the length of that window
    served            \* the own window of the limiter for the client and
                      \* the requests allowed in it

limiterVars == <<rateLimitStore, verdict, through, served>>

VARIABLE
    rendered          \* the renderers: the arguments other than the groups,
                      \* and what the calls returned

renderVars == <<rendered>>

VARIABLE
    storedBy          \* bookkeeping of the properties: the pairs of a key
                      \* of the commit cache and the user whose request
                      \* made the last set under it

ownerVars == <<storedBy>>

restVars ==
    <<keyVars, cacheVars, apiVars, limiterVars, renderVars, ownerVars>>

vars == <<groupVars, fetchVars, routeVars, restVars>>

noKeyInput == [prefix |-> <<>>, params |-> <<>>, reordered |-> <<>>]

noKeyResult == [key |-> <<>>, hit |-> FALSE]

keyIdle ==
    /\ kin = noKeyInput
    /\ kpc = "idle"
    /\ kstore = {}
    /\ kgot = noKeyResult

noCacheOp ==
    [op |-> "none", key |-> <<>>, hit |-> FALSE, value |-> <<>>, at |-> 0,
     held |-> FALSE, full |-> FALSE, size |-> 0, removed |-> {},
     oldest |-> {}]

cacheIdle ==
    /\ now = 0
    /\ repoCache = <<>>
    /\ changelogCache = <<>>
    /\ tokenHealthCache = <<>>
    /\ inst = "none"
    /\ nops = 0
    /\ cop = noCacheOp
    /\ hist = <<>>

\* a handler has not answered
noAnswer == [status |-> 0, error |-> "none", body |-> <<>>]

noHandler == [pc |-> "idle", req |-> <<>>, resp |-> noAnswer]

noLookup == [route |-> "none", fresh |-> FALSE, hit |-> FALSE, held |-> <<>>,
             stale |-> FALSE]

noOwed == [claimed |-> {}, documented |-> {}]

noStale == [commits |-> {}, repos |-> {}, changelogs |-> {}, tokenHealth |-> {}]

handlersIdle ==
    /\ discover = noHandler
    /\ connect = noHandler
    /\ tokenPost = noHandler
    /\ health = noHandler
    /\ export = noHandler
    /\ lookup = noLookup
    /\ owed = noOwed
    /\ stale = noStale

\* the providers a repository or a token belongs to
Providers == {"github", "gitlab"}

Users == {"u1", "u2"}

\* the rows of the repos table: two users have connected the same GitHub
\* repository, one of them a GitLab project as well
Repos ==
    { [ id |-> "r1", user_id |-> "u1", provider |-> "github",
        repo_owner |-> "acme", repo_name |-> "app", default_branch |-> "main" ],
      [ id |-> "r2", user_id |-> "u2", provider |-> "github",
        repo_owner |-> "acme", repo_name |-> "app", default_branch |-> "main" ],
      [ id |-> "r3", user_id |-> "u1", provider |-> "gitlab",
        repo_owner |-> "acme", repo_name |-> "lib", default_branch |-> "main" ] }

RepoIds == {r.id : r \in Repos}

\* the tables before any handler ran: no token is saved
tablesIdle ==
    /\ repos = Repos
    /\ tokens = [pair \in Users \X Providers |-> 0]

\* no limiter has seen a request
noVerdict ==
    [given |-> FALSE, limiter |-> "none", limited |-> FALSE, counted |-> 0,
     windowMs |-> 0, fresh |-> FALSE, over |-> 0]

\* no client is followed
noThrough ==
    [identifier |-> <<>>, limiter |-> "none", counted |-> 0, windowMs |-> 0]

\* no window of a limiter is open
noWindow == [until |-> 0, allowed |-> 0]

\* the limiter after the module is loaded: the store is the empty object
limiterIdle ==
    /\ rateLimitStore = <<>>
    /\ verdict = noVerdict
    /\ through = noThrough
    /\ served = noWindow

\* no renderer was called
noRendered ==
    [repoName |-> <<>>, startRef |-> "<undefined>", endRef |-> "<undefined>",
     markdown |-> <<>>, json |-> <<>>]

renderIdle == rendered = noRendered

ownerIdle == storedBy = {}

restIdle ==
    keyIdle /\ cacheIdle /\ handlersIdle /\ tablesIdle /\ limiterIdle
        /\ renderIdle /\ ownerIdle

-----------------------------------------------------------------------------
(* Bounds *)

\* longest enumerated input of groupCommitsByType
MaxCommits == 3

\* number of distinct commits the provider holds
NumShas == 3

\* most commits in one primary response
MaxBatch == 3

\* most commits in one primary response to a generation request
MaxRouteBatch == 1

\* generation requests in one behaviour
MaxRequests == 2

-----------------------------------------------------------------------------
(* Characters and strings *)

NL == "\n"

UpperChars ==
    <<"A","B","C","D","E","F","G","H","I","J","K","L","M",
      "N","O","P","Q","R","S","T","U","V","W","X","Y","Z">>

LowerChars ==
    <<"a","b","c","d","e","f","g","h","i","j","k","l","m",
      "n","o","p","q","r","s","t","u","v","w","x","y","z">>

Digits == {"0","1","2","3","4","5","6","7","8","9"}

Range(s) == {s[i] : i \in DOMAIN s}

\* String.prototype.toLowerCase on one character
lowerChar(c) ==
    IF \E i \in DOMAIN UpperChars : UpperChars[i] = c
    THEN LowerChars[CHOOSE i \in DOMAIN UpperChars : UpperChars[i] = c]
    ELSE c

toLowerCase(s) == [i \in DOMAIN s |-> lowerChar(s[i])]

\* String.prototype.includes
includes(s, sub) ==
    \E k \in 0..(Len(s) - Len(sub)) :
        \A j \in 1..Len(sub) : s[k + j] = sub[j]

\* the regular expression classes \w, \s and . (which excludes line ends)
isWord(c) == c \in Range(UpperChars) \cup Range(LowerChars) \cup Digits \cup {"_"}
isSpace(c) == c \in {" ", "\t", NL, "\r"}
isDot(c) == c \notin {NL, "\r"}

\* length of the longest run of \w characters at the start of s
RECURSIVE wordRun(_, _)
wordRun(s, n) ==
    IF n < Len(s) /\ isWord(s[n + 1]) THEN wordRun(s, n + 1) ELSE n

\* :\s*(.+) matched at position p of s
matchTail(s, p) ==
    /\ p <= Len(s)
    /\ s[p] = ":"
    /\ \E q \in (p + 1)..Len(s) :
          /\ isDot(s[q])
          /\ \A r \in (p + 1)..(q - 1) : isSpace(s[r])

\* !?:\s*(.+) matched at position p of s
matchBangTail(s, p) ==
    \/ matchTail(s, p)
    \/ p <= Len(s) /\ s[p] = "!" /\ matchTail(s, p + 1)

\* (\(.+?\))?!?:\s*(.+) matched at position p of s
matchScopeTail(s, p) ==
    \/ matchBangTail(s, p)
    \/ /\ p <= Len(s)
       /\ s[p] = "("
       /\ \E q \in (p + 2)..Len(s) :
             /\ s[q] = ")"
             /\ \A r \in (p + 1)..(q - 1) : isDot(s[r])
             /\ matchBangTail(s, q + 1)

\* message.match(/^(\w+)(\(.+?\))?!?:\s*(.+)/): \w+ is greedy and every
\* character that may follow it is not a \w character, so the only candidate
\* for group 1 is the longest run
matches(s) == wordRun(s, 0) > 0 /\ matchScopeTail(s, wordRun(s, 0) + 1)

\* match[1]
matchType(s) == SubSeq(s, 1, wordRun(s, 0))

-----------------------------------------------------------------------------
(* groupCommitsByType: the tables *)

\* groupKeys with chore declared ahead of features
groupKeysChoreFirst ==
    <<"chore", "features", "fixes", "breaking", "performance", "docs", "style",
      "refactor", "test", "build", "ci", "other">>

\* the keys of groups, in the order the object literal inserts them, which is
\* the order Object.entries visits them
groupKeys ==
    <<"features", "fixes", "breaking", "performance", "docs", "style",
      "refactor", "test", "build", "ci", "chore", "other">>

\* categoryMap: own properties
categoryMapOwn ==
    <<  <<  <<"f","e","a","t">>,                    "features"    >>,
        <<  <<"f","i","x">>,                        "fixes"       >>,
        <<  <<"b","r","e","a","k","i","n","g">>,    "breaking"    >>,
        <<  <<"p","e","r","f">>,                    "performance" >>,
        <<  <<"d","o","c","s">>,                    "docs"        >>,
        <<  <<"s","t","y","l","e">>,                "style"       >>,
        <<  <<"r","e","f","a","c","t","o","r">>,    "refactor"    >>,
        <<  <<"t","e","s","t">>,                    "test"        >>,
        <<  <<"b","u","i","l","d">>,                "build"       >>,
        <<  <<"c","i">>,                            "ci"          >>,
        <<  <<"c","h","o","r","e">>,                "chore"       >>  >>

\* categoryMap is an object literal, so a lookup that finds no own property
\* goes on to Object.prototype; of its property names only these two are
\* made of lower-case \w characters.  Both values are objects (truthy) whose
\* string form is no key of groups.
inheritedNames ==
    {   <<"c","o","n","s","t","r","u","c","t","o","r">>,
        <<"_","_","p","r","o","t","o","_","_">>  }

\* categoryMap[type]: a key of groups, "inherited" or "undefined"
categoryMap(type) ==
    IF \E i \in DOMAIN categoryMapOwn : categoryMapOwn[i][1] = type
    THEN categoryMapOwn[CHOOSE i \in DOMAIN categoryMapOwn :
                            categoryMapOwn[i][1] = type][2]
    ELSE IF type \in inheritedNames THEN "inherited"
    ELSE "undefined"

categoryLabels ==
    [ breaking    |-> "Breaking Changes",
      features    |-> "Features",
      fixes       |-> "Bug Fixes",
      performance |-> "Performance",
      docs        |-> "Documentation",
      style       |-> "Styling",
      refactor    |-> "Refactoring",
      test        |-> "Tests",
      build       |-> "Build",
      ci          |-> "CI/CD",
      chore       |-> "Chores",
      other       |-> "Other Changes" ]

breakingChange ==
    <<"b","r","e","a","k","i","n","g"," ","c","h","a","n","g","e">>

bangColon == <<"!", ":">>

\* the test of line 46 on the lower-cased message
isBreaking(message) ==
    includes(message, breakingChange) \/ includes(message, bangColon)

\* bucketOf with the type prefix tried before the breaking-change test
bucketOfPrefixFirst(text) ==
    LET message == toLowerCase(text)
    IN  IF matches(message) /\ categoryMap(matchType(message)) \in Range(groupKeys)
        THEN categoryMap(matchType(message))
        ELSE IF isBreaking(message) THEN "breaking"
        ELSE IF matches(message) /\ categoryMap(matchType(message)) = "inherited"
             THEN "TypeError"
             ELSE "other"

\* The body of commits.forEach for one message: the key of the array the
\* commit is pushed to, or "TypeError" when groups[category] is undefined
\* and the push throws.
bucketOf(text) ==
    LET message == toLowerCase(text)
    IN  IF isBreaking(message) THEN "breaking"
        ELSE IF matches(message)
             THEN LET category == categoryMap(matchType(message))
                  IN  IF category = "undefined" THEN "other"
                      ELSE IF category = "inherited" THEN "TypeError"
                      ELSE category
             ELSE "other"

-----------------------------------------------------------------------------
(* Commit messages the inputs are drawn from; a commit holds the index of  *)
(* its message.                                                            *)

Messages ==
    <<
    \* 1: feat: add login
        <<"f","e","a","t",":"," ","a","d","d"," ","l","o","g","i","n">>,
    \* 2: fix: crash on null
        <<"f","i","x",":"," ","c","r","a","s","h"," ","o","n"," ","n","u",
          "l","l">>,
    \* 3: chore: bump deps
        <<"c","h","o","r","e",":"," ","b","u","m","p"," ","d","e","p","s">>,
    \* 4: random message
        <<"r","a","n","d","o","m"," ","m","e","s","s","a","g","e">>,
    \* 5: feat!: remove old API\n\nBREAKING CHANGE: old API removed
        <<"f","e","a","t","!",":"," ","r","e","m","o","v","e"," ","o","l",
          "d"," ","A","P","I",NL,NL,"B","R","E","A","K","I","N","G"," ","C",
          "H","A","N","G","E",":"," ","o","l","d"," ","A","P","I"," ","r",
          "e","m","o","v","e","d">>,
    \* 6: perf: cache
        <<"p","e","r","f",":"," ","c","a","c","h","e">>,
    \* 7: docs: readme
        <<"d","o","c","s",":"," ","r","e","a","d","m","e">>,
    \* 8: style: lint
        <<"s","t","y","l","e",":"," ","l","i","n","t">>,
    \* 9: refactor: api
        <<"r","e","f","a","c","t","o","r",":"," ","a","p","i">>,
    \* 10: test: e2e
        <<"t","e","s","t",":"," ","e","2","e">>,
    \* 11: build: deps
        <<"b","u","i","l","d",":"," ","d","e","p","s">>,
    \* 12: ci: lint
        <<"c","i",":"," ","l","i","n","t">>,
    \* 13: Fix(ui): Typo
        <<"F","i","x","(","u","i",")",":"," ","T","y","p","o">>,
    \* 14: wip: draft
        <<"w","i","p",":"," ","d","r","a","f","t">>,
    \* 15: breaking: drop v1
        <<"b","r","e","a","k","i","n","g",":"," ","d","r","o","p"," ","v",
          "1">>,
    \* 16: constructor: init
        <<"c","o","n","s","t","r","u","c","t","o","r",":"," ","i","n","i",
          "t">>,
    \* 17: fix: a BREAKING CHANGE
        <<"f","i","x",":"," ","a"," ","B","R","E","A","K","I","N","G"," ",
          "C","H","A","N","G","E">>,
    \* 18: feat(api)!: drop v1
        <<"f","e","a","t","(","a","p","i",")","!",":"," ","d","r","o","p",
          " ","v","1">>
    >>

MessageIds == DOMAIN Messages

\* the bucket of every message of the pool
bucketTable == [m \in MessageIds |-> bucketOf(Messages[m])]

-----------------------------------------------------------------------------
(* groupCommitsByType *)

emptyGroups == [k \in Range(groupKeys) |-> <<>>]

\* pushCommit with unshift in place of push
pushCommitFront(g, commit) ==
    [g EXCEPT ![bucketTable[commit.message]] = <<commit>> \o @]

\* one iteration of commits.forEach on the buckets g
pushCommit(g, commit) ==
    [g EXCEPT ![bucketTable[commit.message]] = Append(@, commit)]

\* commits.forEach from position i on: the buckets, and whether a push threw
RECURSIVE forEachCommit(_, _, _)
forEachCommit(cs, i, g) ==
    IF i > Len(cs) THEN [threw |-> FALSE, groups |-> g]
    ELSE IF bucketTable[cs[i].message] = "TypeError"
         THEN [threw |-> TRUE, groups |-> g]
         ELSE forEachCommit(cs, i + 1, pushCommit(g, cs[i]))

\* entriesFrom without the commits.length > 0 test
RECURSIVE entriesFromUnfiltered(_, _)
entriesFromUnfiltered(g, k) ==
    IF k > Len(groupKeys) THEN <<>>
    ELSE <<[category |-> categoryLabels[groupKeys[k]],
            commits |-> g[groupKeys[k]]]>> \o entriesFromUnfiltered(g, k + 1)

\* Object.entries(groups).forEach: the non-empty buckets, in key order
RECURSIVE entriesFrom(_, _)
entriesFrom(g, k) ==
    IF k > Len(groupKeys) THEN <<>>
    ELSE LET key == groupKeys[k]
         IN  IF Len(g[key]) > 0
             THEN <<[category |-> categoryLabels[key], commits |-> g[key]]>>
                      \o entriesFrom(g, k + 1)
             ELSE entriesFrom(g, k + 1)

\* the call as a whole: the CommitGroup[] returned, or the exception
groupCommitsByType(cs) ==
    LET r == forEachCommit(cs, 1, emptyGroups)
    IN  IF r.threw THEN [threw |-> TRUE, value |-> <<>>]
        ELSE [threw |-> FALSE, value |-> entriesFrom(r.groups, 1)]

-----------------------------------------------------------------------------
(* The classifier applied to enumerated inputs *)

\* the commits of a fetch result have distinct shas: the sha of an
\* enumerated commit is its position
mkCommits(ms) == [k \in DOMAIN ms |-> [sha |-> k, message |-> ms[k]]]

SeqsUpTo(S, n) == UNION {[1..k -> S] : k \in 0..n}

\* the conventional-grouping scenario
ScenarioConventional == <<1, 2, 3, 4>>

GroupInputs ==
    {mkCommits(ms) : ms \in SeqsUpTo(MessageIds, MaxCommits)}
        \cup {mkCommits(ScenarioConventional)}

noCall == [provider |-> "none", includeDetails |-> FALSE, args |-> <<>>]

fetchIdle ==
    /\ call = noCall
    /\ apc = "idle"
    /\ primaryStatus = "none"
    /\ primary = <<>>
    /\ detail = <<>>
    /\ enriched = <<>>
    /\ issued = <<>>
    /\ arrivals = <<>>

noReq ==
    [user |-> "none", repoId |-> "none", startRef |-> "none",
     endRef |-> "none", useAi |-> FALSE]

noResponse == [status |-> 0, error |-> "none"]

noGroups == [threw |-> FALSE, value |-> <<>>]

routeIdle ==
    /\ rpc = "idle"
    /\ req = noReq
    /\ rcommits = <<>>
    /\ rgroups = noGroups
    /\ renderer = "none"
    /\ response = noResponse
    /\ commitCache = <<>>
    /\ changelogs = <<>>
    /\ openaiKey = FALSE
    /\ handled = 0
    /\ atStart = [cache |-> <<>>, rows |-> <<>>]

InitGroup ==
    /\ commits \in GroupInputs
    /\ result = [threw |-> FALSE, value |-> <<>>]
    /\ gpc = "call"
    /\ fetchIdle
    /\ routeIdle
    /\ restIdle

GroupCommits ==
    /\ gpc = "call"
    /\ result' = groupCommitsByType(commits)
    /\ gpc' = IF groupCommitsByType(commits).threw THEN "threw" ELSE "done"
    /\ UNCHANGED <<commits, fetchVars, routeVars, restVars>>

NextGroup == GroupCommits

SpecGroup == InitGroup /\ [][NextGroup]_vars

-----------------------------------------------------------------------------
(* Properties of groupCommitsByType *)

\* the order of the category labels the specification gives
LabelOrder ==
    <<"Breaking Changes", "Features", "Bug Fixes", "Performance",
      "Documentation", "Styling", "Refactoring", "Tests", "Build", "CI/CD",
      "Chores", "Other Changes">>

rank(label) == CHOOSE i \in DOMAIN LabelOrder : LabelOrder[i] = label

labelsOf(v) == [i \in DOMAIN v |-> v[i].category]

\* the labels ls come in the order of LabelOrder
inLabelOrder(ls) ==
    \A i, j \in DOMAIN ls : i < j => rank(ls[i]) < rank(ls[j])

RECURSIVE flatMapCommits(_)
flatMapCommits(v) ==
    IF v = <<>> THEN <<>> ELSE Head(v).commits \o flatMapCommits(Tail(v))

\* every element of b occurs exactly once in a, and a holds nothing else
isPermutation(a, b) ==
    /\ Len(a) = Len(b)
    /\ \A k \in DOMAIN b : Cardinality({i \in DOMAIN a : a[i] = b[k]}) = 1

\* the groups of v that hold commit c
groupsHolding(v, c) ==
    {i \in DOMAIN v : \E j \in DOMAIN v[i].commits : v[i].commits[j] = c}

\* the messages whose lower-cased text starts with a type of the vocabulary
typePrefixed ==
    {m \in MessageIds :
        /\ matches(toLowerCase(Messages[m]))
        /\ categoryMap(matchType(toLowerCase(Messages[m]))) \in Range(groupKeys)}

\* the messages whose lower-cased text holds 'breaking change' or '!:'
breakingMarked == {m \in MessageIds : isBreaking(toLowerCase(Messages[m]))}

hasTypePrefix(m) == m \in typePrefixed

hasBreakingMarker(m) == m \in breakingMarked

\* C1: for every input, the commit lists of the emitted groups, concatenated,
\* are a permutation of the input: no commit is lost and none is duplicated.
C1_EveryCommitInOneGroup ==
    gpc # "call" =>
        /\ ~result.threw
        /\ isPermutation(flatMapCommits(result.value), commits)

\* C2: a commit whose message has a type prefix and also a breaking-change
\* marker is pushed to the breaking bucket, and a call that returns holds it
\* in the Breaking Changes group and in no other group.
C2_BreakingOnly ==
    \A k \in DOMAIN commits :
        (hasTypePrefix(commits[k].message) /\ hasBreakingMarker(commits[k].message))
        => /\ bucketTable[commits[k].message] = "breaking"
           /\ gpc = "done" =>
                \E i \in DOMAIN result.value :
                    /\ result.value[i].category = "Breaking Changes"
                    /\ groupsHolding(result.value, commits[k]) = {i}

C2_Witness ==
    /\ gpc = "done"
    /\ Len(result.value) = 2
    /\ \E k \in DOMAIN commits :
          /\ commits[k].message = 5
          /\ hasTypePrefix(5) /\ hasBreakingMarker(5)
    /\ \E k \in DOMAIN commits : commits[k].message = 1

\* C3: the non-empty groups are emitted in the order breaking, features,
\* fixes, performance, docs, style, refactor, test, build, ci, chore, other.
C3_FixedOrder ==
    gpc = "done" => inLabelOrder(labelsOf(result.value))

\* C4: for an input with no breaking-change commit the groups of the eleven
\* other categories come in the order Features, Bug Fixes, Performance,
\* Documentation, Styling, Refactoring, Tests, Build, CI/CD, Chores, Other
\* Changes; the conventional-grouping scenario gives Features, Bug Fixes,
\* Chores, Other Changes with one commit each.
C4_OrderWithoutBreaking ==
    gpc = "done" =>
        /\ (\A k \in DOMAIN commits : ~hasBreakingMarker(commits[k].message))
           => inLabelOrder(SelectSeq(labelsOf(result.value),
                                     LAMBDA l : l # "Breaking Changes"))
        /\ commits = mkCommits(ScenarioConventional)
           => /\ labelsOf(result.value)
                    = <<"Features", "Bug Fixes", "Chores", "Other Changes">>
              /\ \A i \in DOMAIN result.value :
                    result.value[i].commits = <<commits[i]>>

C4_Witness ==
    /\ gpc = "done"
    /\ commits = mkCommits(ScenarioConventional)
    /\ Len(result.value) = 4

\* C5: no emitted group has an empty commit list, no category label occurs
\* twice, and the empty input gives the empty sequence.
C5_NoEmptyGroup ==
    gpc # "call" =>
        /\ \A i \in DOMAIN result.value : result.value[i].commits # <<>>
        /\ \A i, j \in DOMAIN result.value :
              result.value[i].category = result.value[j].category => i = j
        /\ commits = <<>> => (gpc = "done" /\ result.value = <<>>)

C5_Witness ==
    /\ gpc = "done"
    /\ Len(commits) = MaxCommits
    /\ Len(result.value) = 1

C5_WitnessEmpty == gpc = "done" /\ commits = <<>> /\ result.value = <<>>

\* C6: within every emitted group the commits keep the relative order they
\* have in the input (the sha of an enumerated commit is its position).
C6_OrderWithinGroup ==
    gpc = "done" =>
        \A i \in DOMAIN result.value :
            LET cs == result.value[i].commits
            IN  \A a, b \in DOMAIN cs :
                    a < b =>
                        /\ commits[cs[a].sha] = cs[a]
                        /\ commits[cs[b].sha] = cs[b]
                        /\ cs[a].sha < cs[b].sha

C6_Witness ==
    /\ gpc = "done"
    /\ \E i \in DOMAIN result.value :
          /\ Len(result.value[i].commits) >= 2
          /\ result.value[i].commits[1].message
                # result.value[i].commits[2].message

-----------------------------------------------------------------------------
(* The provider: what its REST API holds for each commit *)

Shas == 1..NumShas


\* the message of each commit (an index of Messages), by sha modulo the table
shaMessages == <<1, 5, 16, 2>>

messageOfSha(sha) == shaMessages[((sha - 1) % Len(shaMessages)) + 1]

\* GET /repos/:owner/:repo/commits/:sha of GitHub: data.files and data.stats
githubDetail(sha) ==
    [ files |->
        [k \in 1..((sha % 2) + 1) |->
            [ filename |-> <<"file", sha, k>>,
              status |-> IF k = 1 THEN "modified" ELSE "renamed",
              additions |-> sha + k,
              deletions |-> k - 1,
              changes |-> sha + 2 * k - 1,
              patch |-> <<"patch", sha, k>>,
              previous_filename |->
                  IF k = 1 THEN <<"undefined">> ELSE <<"old", sha, k>> ]],
      stats |->
        [ additions |-> sha + 10, deletions |-> sha, total |-> 2 * sha + 10 ] ]

\* lines of a unified diff, as character sequences
diffHeaderOld == <<"-", "-", "-", " ", "a">>
diffHeaderNew == <<"+", "+", "+", " ", "b">>
diffAdded == <<"+", "x">>
diffAddedBare == <<"+">>
diffRemoved == <<"-", "y">>
diffContext == <<" ", "z">>

\* GET /projects/:id/repository/commits/:sha/diff of GitLab: one entry a file
gitlabDiffs(sha) ==
    [k \in 1..((sha % 2) + 1) |->
        [ new_path |-> <<"file", sha, k>>,
          old_path |-> IF k = 1 THEN <<"file", sha, k>> ELSE <<"old", sha, k>>,
          new_file |-> FALSE,
          deleted_file |-> FALSE,
          renamed_file |-> (k # 1),
          diff |->
              <<diffHeaderOld, diffHeaderNew, diffContext>>
                  \o [j \in 1..sha |-> IF j = 1 THEN diffAddedBare ELSE diffAdded]
                  \o [j \in 1..k |-> diffRemoved] ]]

-----------------------------------------------------------------------------
(* fetchGitHubCommitDetails and fetchGitLabCommitDetails *)

emptyDetails ==
    [files |-> <<>>, stats |-> [additions |-> 0, deletions |-> 0, total |-> 0]]

\* the mapping of data.files and data.stats on a 2xx answer
githubParsed(sha) ==
    LET data == githubDetail(sha)
    IN  [ files |->
            [k \in DOMAIN data.files |->
                [ filename |-> data.files[k].filename,
                  status |-> data.files[k].status,
                  additions |-> data.files[k].additions,
                  deletions |-> data.files[k].deletions,
                  changes |-> data.files[k].changes,
                  patch |-> data.files[k].patch,
                  previous_filename |-> data.files[k].previous_filename ]],
          stats |->
            [ additions |-> data.stats.additions,
              deletions |-> data.stats.deletions,
              total |-> data.stats.total ] ]

\* diff.match(/^\+(?!\+)/gm).length and diff.match(/^-(?!-)/gm).length:
\* the lines that start with the sign and do not go on with it
countLines(lines, sign) ==
    Cardinality({j \in DOMAIN lines :
        /\ Len(lines[j]) >= 1
        /\ lines[j][1] = sign
        /\ (Len(lines[j]) >= 2 => lines[j][2] # sign)})

RECURSIVE sumOver(_, _)
sumOver(fs, field) ==
    IF fs = <<>> THEN 0 ELSE Head(fs)[field] + sumOver(Tail(fs), field)

\* the mapping of the diff entries on a 2xx answer
gitlabParsed(sha) ==
    LET diffs == gitlabDiffs(sha)
        files ==
            [k \in DOMAIN diffs |->
                [ filename |-> diffs[k].new_path,
                  status |->
                      IF diffs[k].new_file THEN "added"
                      ELSE IF diffs[k].deleted_file THEN "removed"
                      ELSE IF diffs[k].renamed_file THEN "renamed"
                      ELSE "modified",
                  additions |-> countLines(diffs[k].diff, "+"),
                  deletions |-> countLines(diffs[k].diff, "-"),
                  changes |-> countLines(diffs[k].diff, "+")
                                  + countLines(diffs[k].diff, "-"),
                  patch |-> diffs[k].diff,
                  previous_filename |->
                      IF diffs[k].old_path # diffs[k].new_path
                      THEN diffs[k].old_path ELSE <<"undefined">> ]]
    IN  [ files |-> files,
          stats |->
            [ additions |-> sumOver(files, "additions"),
              deletions |-> sumOver(files, "deletions"),
              total |-> sumOver(files, "additions")
                            + sumOver(files, "deletions") ] ]

\* the answers a detail request can get: 2xx, another status, no answer
DetailAnswers == {"ok", "status", "network"}

\* fetchGitHubCommitDetails lets a rejected fetch through to its caller;
\* fetchGitLabCommitDetails catches it
detailsCallThrows(provider, answer) ==
    provider = "github" /\ answer = "network"

\* what fetchGitHubCommitDetails or fetchGitLabCommitDetails returns
detailsReturned(provider, sha, answer) ==
    IF answer = "ok"
    THEN IF provider = "github" THEN githubParsed(sha) ELSE gitlabParsed(sha)
    ELSE emptyDetails

\* the map callback without its try/catch: a throwing details call rejects
callbackRejectsUncaught(provider, answer) ==
    detailsCallThrows(provider, answer)

\* the map callback catches what the details call throws
callbackRejects(provider, answer) == FALSE

\* the details the map callback ends with
callbackDetails(provider, sha, answer) ==
    IF detailsCallThrows(provider, answer) THEN emptyDetails
    ELSE detailsReturned(provider, sha, answer)

\* the GitCommit the map callback returns
enrichedCommit(sha, details) ==
    [ sha |-> sha,
      message |-> messageOfSha(sha),
      stats |-> details.stats,
      files |-> details.files ]

pending == [pending |-> TRUE]

\* the record fills the first open slot, whatever its position
settleInArrivalOrder(slots, i, record) ==
    LET first == CHOOSE j \in DOMAIN slots :
                    /\ slots[j] = pending
                    /\ \A h \in 1..(j - 1) : slots[h] # pending
    IN  [slots EXCEPT ![first] = record]

\* Promise.all keeps the value of the i-th promise at index i
settle(slots, i, record) == [slots EXCEPT ![i] = record]

-----------------------------------------------------------------------------
(* fetchGitHubCommits and fetchGitLabCommits *)

\* sequences of distinct shas
ProviderLists ==
    {l \in SeqsUpTo(Shas, MaxBatch) :
        \A i, j \in DOMAIN l : l[i] = l[j] => i = j}

\* the answers the list/compare request can get: 2xx, another status, no
\* answer
PrimaryAnswers == {"ok", "status", "network"}

\* only a rejected fetch ends the call: response.ok is not looked at
primaryThrowsOnRejectOnly(answer) == answer = "network"

\* a rejected fetch propagates, and a status outside 2xx is thrown as
\* 'GitHub API error' or 'GitLab API error'
primaryThrows(answer) == answer # "ok"

\* the await of the list/compare request ends and the function throws
PrimaryFails ==
    /\ apc = "primary"
    /\ \E answer \in PrimaryAnswers :
          /\ primaryThrows(answer)
          /\ primaryStatus' = answer
    /\ apc' = "threw"
    /\ UNCHANGED <<call, primary, detail, enriched, issued, arrivals>>

\* the answer is taken as the commits l: commits.map runs every callback up
\* to its first await, which sends the detail request when includeDetails
\* is set
PrimaryResponds(lists) ==
    /\ apc = "primary"
    /\ \E answer \in PrimaryAnswers :
          /\ ~primaryThrows(answer)
          /\ primaryStatus' = answer
    /\ \E l \in lists :
          /\ primary' = l
          /\ IF call.includeDetails
             THEN /\ issued' = l
                  /\ detail' = [i \in DOMAIN l |-> "inflight"]
                  /\ enriched' = [i \in DOMAIN l |-> pending]
             ELSE /\ issued' = <<>>
                  /\ detail' = [i \in DOMAIN l |-> "none"]
                  /\ enriched' =
                        [i \in DOMAIN l |-> enrichedCommit(l[i], emptyDetails)]
    /\ apc' = "details"
    /\ UNCHANGED <<call, arrivals>>

\* one detail request is answered and its callback runs to its end
DetailSettles ==
    /\ apc = "details"
    /\ \E i \in DOMAIN detail, answer \in DetailAnswers :
          /\ detail[i] = "inflight"
          /\ detail' = [detail EXCEPT ![i] = answer]
          /\ arrivals' = Append(arrivals, i)
          /\ IF callbackRejects(call.provider, answer)
             THEN apc' = "threw" /\ UNCHANGED enriched
             ELSE /\ apc' = apc
                  /\ enriched' =
                        settle(enriched, i,
                               enrichedCommit(primary[i],
                                   callbackDetails(call.provider, primary[i],
                                                   answer)))
    /\ UNCHANGED <<call, primaryStatus, primary, issued>>

\* every promise is fulfilled: Promise.all resolves and the function returns
AdapterReturns ==
    /\ apc = "details"
    /\ \A i \in DOMAIN enriched : enriched[i] # pending
    /\ apc' = "returned"
    /\ UNCHANGED <<call, primaryStatus, primary, detail, enriched, issued,
                   arrivals>>

groupIdle ==
    /\ commits = <<>>
    /\ result = [threw |-> FALSE, value |-> <<>>]
    /\ gpc = "idle"

Undefined == "<undefined>"

\* the arguments after token and repository: base and head of GitHub;
\* refName, since and until of GitLab
CallArgs(provider) ==
    IF provider = "github"
    THEN {<<Undefined, Undefined>>, <<"v1", "v2">>}
    ELSE {<<"main", Undefined, Undefined>>, <<"v2", "v1", "v2">>}

InitFetch ==
    /\ \E provider \in Providers, includeDetails \in BOOLEAN :
          \E args \in CallArgs(provider) :
              call = [provider |-> provider, includeDetails |-> includeDetails,
                      args |-> args]
    /\ apc = "primary"
    /\ primaryStatus = "pending"
    /\ primary = <<>>
    /\ detail = <<>>
    /\ enriched = <<>>
    /\ issued = <<>>
    /\ arrivals = <<>>
    /\ groupIdle
    /\ routeIdle
    /\ restIdle

NextFetch ==
    \/ (PrimaryFails /\ UNCHANGED <<restVars, groupVars, routeVars>>)
    \/ (PrimaryResponds(ProviderLists) /\ UNCHANGED <<restVars, groupVars, routeVars>>)
    \/ (DetailSettles /\ UNCHANGED <<restVars, groupVars, routeVars>>)
    \/ (AdapterReturns /\ UNCHANGED <<restVars, groupVars, routeVars>>)

SpecFetch == InitFetch /\ [][NextFetch]_vars

-----------------------------------------------------------------------------
(* generateCacheKey (lib/cache.ts) *)

\* longest enumerated parameter object
MaxParams == 3

\* the characters of the keys, in the order of their UTF-16 code units
CodeOrder ==
    <<"-", ".", "/",
      "0","1","2","3","4","5","6","7","8","9", ":",
      "A","B","C","D","E","F","G","H","I","J","K","L","M",
      "N","O","P","Q","R","S","T","U","V","W","X","Y","Z", "_",
      "a","b","c","d","e","f","g","h","i","j","k","l","m",
      "n","o","p","q","r","s","t","u","v","w","x","y","z", "|">>

codeUnit(c) == CHOOSE i \in DOMAIN CodeOrder : CodeOrder[i] = c

\* a sorts before b under the default comparison of Array.prototype.sort
RECURSIVE strLess(_, _)
strLess(a, b) ==
    IF b = <<>> THEN FALSE
    ELSE IF a = <<>> THEN TRUE
    ELSE IF a[1] = b[1] THEN strLess(Tail(a), Tail(b))
    ELSE codeUnit(a[1]) < codeUnit(b[1])

\* the sequence without its i-th element
without(s, i) == [j \in 1..(Len(s) - 1) |-> IF j < i THEN s[j] ELSE s[j + 1]]

\* Array.prototype.sort() on distinct strings
RECURSIVE sortStrings(_)
sortStrings(s) ==
    IF s = <<>> THEN <<>>
    ELSE LET m == CHOOSE i \in DOMAIN s :
                      \A j \in DOMAIN s : ~strLess(s[j], s[i])
         IN  <<s[m]>> \o sortStrings(without(s, m))

\* Array.prototype.join
RECURSIVE join(_, _)
join(strs, sep) ==
    IF strs = <<>> THEN <<>>
    ELSE IF Len(strs) = 1 THEN strs[1]
    ELSE strs[1] \o sep \o join(Tail(strs), sep)

\* the value undefined; every other value of a parameter is a string
undefined == <<"<undefined>">>

\* a value inside a template literal
stringify(v) ==
    IF v = undefined THEN <<"u","n","d","e","f","i","n","e","d">> ELSE v

\* Object.keys of an object literal whose names are not integers: the names
\* in insertion order
ObjectKeys(params) == [i \in DOMAIN params |-> params[i].name]

\* params[key]
valueOf(params, key) ==
    params[CHOOSE i \in DOMAIN params : params[i].name = key].value

\* `${key}:${params[key]}` for the keys in the given order, joined by '|'
encodeParams(params, keys) ==
    join([i \in DOMAIN keys |->
              keys[i] \o <<":">> \o stringify(valueOf(params, keys[i]))],
         <<"|">>)

\* the key without .sort(): the fields in insertion order
generateCacheKeyUnsorted(prefix, params) ==
    prefix \o <<":">> \o encodeParams(params, ObjectKeys(params))

\* generateCacheKey(prefix, params)
generateCacheKey(prefix, params) ==
    prefix \o <<":">> \o encodeParams(params, sortStrings(ObjectKeys(params)))

\* names and values of the enumerated parameter objects
ParamNames ==
    { <<"a">>, <<"b">>, <<"t","o","R","e","f">>,
      <<"r","e","p","o","I","d">> }

ParamValues == { <<"1">>, undefined }

KeyPrefixes == { <<"c","o","m","m","i","t","s">>, <<"r","e","p","o","s">> }

\* objects as the sequence of their fields in insertion order
ParamObjects ==
    {p \in SeqsUpTo([name : ParamNames, value : ParamValues], MaxParams) :
        \A i, j \in DOMAIN p : p[i].name = p[j].name => i = j}

\* the objects holding the fields of p, in every insertion order
reorderings(p) ==
    {[i \in DOMAIN p |-> p[pi[i]]] : pi \in Permutations(DOMAIN p)}

InitKey ==
    /\ \E prefix \in KeyPrefixes, p \in ParamObjects :
          \E q \in reorderings(p) :
              kin = [prefix |-> prefix, params |-> p, reordered |-> q]
    /\ kpc = "start"
    /\ kstore = {}
    /\ kgot = noKeyResult
    /\ cacheIdle
    /\ handlersIdle
    /\ limiterIdle
    /\ renderIdle
    /\ ownerIdle
    /\ tablesIdle
    /\ groupIdle
    /\ fetchIdle
    /\ routeIdle

\* set(params, v): the value is stored under the key of the object
KeySet ==
    /\ kpc = "start"
    /\ kstore' = kstore \cup {generateCacheKey(kin.prefix, kin.params)}
    /\ kpc' = "stored"
    /\ UNCHANGED <<kin, kgot, cacheVars, apiVars, limiterVars, renderVars, ownerVars, groupVars, fetchVars,
                   routeVars>>

\* get(params) with the fields in the other order
KeyGet ==
    /\ kpc = "stored"
    /\ LET key == generateCacheKey(kin.prefix, kin.reordered)
       IN  kgot' = [key |-> key, hit |-> key \in kstore]
    /\ kpc' = "done"
    /\ UNCHANGED <<kin, kstore, cacheVars, apiVars, limiterVars, renderVars, ownerVars, groupVars, fetchVars,
                   routeVars>>

NextKey == KeySet \/ KeyGet

SpecKey == InitKey /\ [][NextKey]_vars

-----------------------------------------------------------------------------
(* The cache layer (lib/cache.ts): four LRUCache instances and their      *)
(* wrappers.  An instance is the sequence of its entries, the least       *)
(* recently used first; an entry holds its key, its value and the time it *)
(* was set.                                                               *)

\* cacheConfigs with the token-health capacity one too large
cacheConfigsOneMore ==
    [ commits     |-> [max |-> 500,  ttl |-> 1000 * 60 * 15],
      repos       |-> [max |-> 1000, ttl |-> 1000 * 60 * 5],
      changelogs  |-> [max |-> 200,  ttl |-> 1000 * 60 * 30],
      tokenHealth |-> [max |-> 101,  ttl |-> 1000 * 60 * 10] ]

\* cacheConfigs with the capacities of the repository lists and of the
\* token health exchanged
cacheConfigsSwapped ==
    [ commits     |-> [max |-> 500,  ttl |-> 1000 * 60 * 15],
      repos       |-> [max |-> 100,  ttl |-> 1000 * 60 * 5],
      changelogs  |-> [max |-> 200,  ttl |-> 1000 * 60 * 30],
      tokenHealth |-> [max |-> 1000, ttl |-> 1000 * 60 * 10] ]

\* cacheConfigs with the commit TTL of the repository lists
cacheConfigsShortTtl ==
    [ commits     |-> [max |-> 500,  ttl |-> 1000 * 60 * 5],
      repos       |-> [max |-> 1000, ttl |-> 1000 * 60 * 5],
      changelogs  |-> [max |-> 200,  ttl |-> 1000 * 60 * 30],
      tokenHealth |-> [max |-> 100,  ttl |-> 1000 * 60 * 10] ]

cacheConfigs ==
    [ commits     |-> [max |-> 500,  ttl |-> 1000 * 60 * 15],
      repos       |-> [max |-> 1000, ttl |-> 1000 * 60 * 5],
      changelogs  |-> [max |-> 200,  ttl |-> 1000 * 60 * 30],
      tokenHealth |-> [max |-> 100,  ttl |-> 1000 * 60 * 10] ]

Instances == {"commits", "repos", "changelogs", "tokenHealth"}

\* the position of the entry of a key, or 0
indexOfKey(S, key) ==
    IF \E i \in DOMAIN S : S[i].key = key
    THEN CHOOSE i \in DOMAIN S : S[i].key = key
    ELSE 0

keysOf(S) == {S[i].key : i \in DOMAIN S}

\* an entry is past its expiry at time t; at the very instant of expiry the
\* outcome depends on the resolution of the clock and is an input
isStale(e, t, ttl, atExpiry) ==
    \/ t - e.start > ttl
    \/ t - e.start = ttl /\ atExpiry

\* LRUCache.delete
lruDelete(S, key) ==
    IF indexOfKey(S, key) = 0 THEN S ELSE without(S, indexOfKey(S, key))

\* LRUCache.get: the value of an entry that is present and not expired, which
\* becomes the most recently used; an expired entry is dropped
lruGet(S, key, t, ttl, atExpiry) ==
    LET i == indexOfKey(S, key)
    IN  IF i = 0
        THEN [hit |-> FALSE, value |-> <<>>, store |-> S]
        ELSE IF isStale(S[i], t, ttl, atExpiry)
        THEN [hit |-> FALSE, value |-> <<>>, store |-> without(S, i)]
        ELSE [hit |-> TRUE, value |-> S[i].value,
              store |-> Append(without(S, i), S[i])]

\* LRUCache.set: the entry becomes the most recently used and its time is the
\* time of the set; a new key in a full instance first evicts the least
\* recently used entry
lruSet(S, key, value, t, max) ==
    LET e == [key |-> key, value |-> value, start |-> t]
        i == indexOfKey(S, key)
    IN  IF i # 0 THEN Append(without(S, i), e)
        ELSE IF Len(S) >= max THEN Append(Tail(S), e)
        ELSE Append(S, e)

\* forEach collects the keys the test holds for, then each is deleted
deleteWhere(S, fragment) ==
    SelectSeq(S, LAMBDA e : ~includes(e.key, fragment))

\* prefix and parameter names of the wrappers
commitsPrefix == <<"c","o","m","m","i","t","s">>
reposPrefix == <<"r","e","p","o","s">>
changelogPrefix == <<"c","h","a","n","g","e","l","o","g">>
tokenHealthPrefix == <<"t","o","k","e","n","H","e","a","l","t","h">>
repoIdName == <<"r","e","p","o","I","d">>
fromRefName == <<"f","r","o","m","R","e","f">>
toRefName == <<"t","o","R","e","f">>
userIdName == <<"u","s","e","r","I","d">>
providerName == <<"p","r","o","v","i","d","e","r">>

\* { repoId, fromRef, toRef }
refParams(repoId, fromRef, toRef) ==
    << [name |-> repoIdName, value |-> repoId],
       [name |-> fromRefName, value |-> fromRef],
       [name |-> toRefName, value |-> toRef] >>

\* { userId, provider }
userParams(userId, provider) ==
    << [name |-> userIdName, value |-> userId],
       [name |-> providerName, value |-> provider] >>

\* the key the wrappers of an instance build from their arguments: the
\* first argument is the repoId or the userId
wrapperKey(which, a) ==
    IF which = "commits"
    THEN generateCacheKey(commitsPrefix, refParams(a[1], a[2], a[3]))
    ELSE IF which = "changelogs"
    THEN generateCacheKey(changelogPrefix, refParams(a[1], a[2], a[3]))
    ELSE IF which = "repos"
    THEN generateCacheKey(reposPrefix, userParams(a[1], a[2]))
    ELSE generateCacheKey(tokenHealthPrefix, userParams(a[1], a[2]))

\* `repoId:${repoId}` or `userId:${userId}`
fragmentOf(which, id) ==
    (IF which \in {"commits", "changelogs"} THEN repoIdName ELSE userIdName)
        \o <<":">> \o id

\* CommitCache.get, RepoCache.get, ChangelogCache.get, TokenHealthCache.get
wrapperGet(which, S, a, t, atExpiry) ==
    lruGet(S, wrapperKey(which, a), t, cacheConfigs[which].ttl, atExpiry)

\* CommitCache.set, RepoCache.set, ChangelogCache.set, TokenHealthCache.set
wrapperSet(which, S, a, data, t) ==
    lruSet(S, wrapperKey(which, a), data, t, cacheConfigs[which].max)

\* CommitCache.invalidate(repoId), ChangelogCache.invalidate(repoId),
\* RepoCache.invalidate(userId), TokenHealthCache.invalidate(userId)
wrapperInvalidate(which, S, id) == deleteWhere(S, fragmentOf(which, id))

\* RepoCache.invalidate(userId, provider),
\* TokenHealthCache.invalidate(userId, provider)
wrapperInvalidateOne(which, S, userId, provider) ==
    lruDelete(S, wrapperKey(which, <<userId, provider>>))

-----------------------------------------------------------------------------
(* The cache layer on its own: calls of the wrappers of one instance as    *)
(* time passes.                                                            *)

\* wrapper calls and clock steps in one behaviour
MaxCacheOps == 6

storeOf(i) ==
    IF i = "commits" THEN commitCache
    ELSE IF i = "repos" THEN repoCache
    ELSE IF i = "changelogs" THEN changelogCache
    ELSE tokenHealthCache

\* the instance i becomes S and the other instances stay
setStore(i, S) ==
    /\ commitCache' = IF i = "commits" THEN S ELSE commitCache
    /\ repoCache' = IF i = "repos" THEN S ELSE repoCache
    /\ changelogCache' = IF i = "changelogs" THEN S ELSE changelogCache
    /\ tokenHealthCache' = IF i = "tokenHealth" THEN S ELSE tokenHealthCache

\* the keys that left the instance in this step
removedKeys(S, T) == keysOf(S) \ keysOf(T)

\* the timeline of the keys: when and with what value each was last set, and
\* the call that last used it; a key leaves the timeline when it is evicted
\* or invalidated
histAfterSet(S, T, key, data) ==
    [k \in (DOMAIN hist \ removedKeys(S, T)) \cup {key} |->
        IF k = key THEN [setAt |-> now, value |-> data, used |-> nops + 1]
        ELSE hist[k]]

histAfterGet(key, hit) ==
    IF hit /\ key \in DOMAIN hist
    THEN [hist EXCEPT ![key].used = nops + 1]
    ELSE hist

histAfterInvalidate(S, T) ==
    [k \in DOMAIN hist \ removedKeys(S, T) |-> hist[k]]

\* by the timeline, the keys of a full instance whose last use is the
\* earliest
oldestUsed(S) ==
    IF S = <<>> \/ Len(S) < cacheConfigs[inst].max THEN {}
    ELSE LET used == [i \in DOMAIN S |-> hist[S[i].key].used]
             m == CHOOSE n \in 1..nops :
                      /\ \E j \in DOMAIN S : used[j] = n
                      /\ \A j \in DOMAIN S : used[j] >= n
         IN  {S[i].key : i \in {j \in DOMAIN S : used[j] = m}}

\* the arguments of the wrapper calls: ids one of which starts with the other
CacheIds == { <<"1">>, <<"1","2">> }

CacheArgs(i) ==
    IF i \in {"commits", "changelogs"}
    THEN {<<id, undefined, undefined>> : id \in CacheIds}
    ELSE {<<id, <<"g","i","t","h","u","b">>>> : id \in CacheIds}

\* a set of data under one of the arguments
CacheSetAs(args, data) ==
    /\ \E a \in args :
          LET key == wrapperKey(inst, a)
              T == wrapperSet(inst, storeOf(inst), a, data, now)
          IN  /\ setStore(inst, T)
              /\ hist' = histAfterSet(storeOf(inst), T, key, data)
              /\ cop' = [op |-> "set", key |-> key, hit |-> FALSE,
                         value |-> data, at |-> now,
                         held |-> key \in keysOf(storeOf(inst)),
                         full |-> Len(storeOf(inst)) >= cacheConfigs[inst].max,
                         size |-> Len(storeOf(inst)),
                         removed |-> removedKeys(storeOf(inst), T),
                         oldest |-> oldestUsed(storeOf(inst))]
    /\ nops' = nops + 1
    /\ UNCHANGED <<now, inst>>

CacheGetOf(args) ==
    /\ \E a \in args, atExpiry \in BOOLEAN :
          LET key == wrapperKey(inst, a)
              got == wrapperGet(inst, storeOf(inst), a, now, atExpiry)
          IN  /\ setStore(inst, got.store)
              /\ hist' = histAfterGet(key, got.hit)
              /\ cop' = [op |-> "get", key |-> key, hit |-> got.hit,
                         value |-> got.value, at |-> now,
                         held |-> key \in keysOf(storeOf(inst)),
                         full |-> Len(storeOf(inst)) >= cacheConfigs[inst].max,
                         size |-> Len(storeOf(inst)),
                         removed |-> removedKeys(storeOf(inst), got.store),
                         oldest |-> oldestUsed(storeOf(inst))]
    /\ nops' = nops + 1
    /\ UNCHANGED <<now, inst>>

CacheInvalidateOf(ids) ==
    /\ \E id \in ids :
          LET T == wrapperInvalidate(inst, storeOf(inst), id)
          IN  /\ setStore(inst, T)
              /\ hist' = histAfterInvalidate(storeOf(inst), T)
              /\ cop' = [op |-> "invalidate", key |-> fragmentOf(inst, id),
                         hit |-> FALSE, value |-> <<>>, at |-> now,
                         held |-> FALSE,
                         full |-> Len(storeOf(inst)) >= cacheConfigs[inst].max,
                         size |-> Len(storeOf(inst)),
                         removed |-> removedKeys(storeOf(inst), T),
                         oldest |-> oldestUsed(storeOf(inst))]
    /\ nops' = nops + 1
    /\ UNCHANGED <<now, inst>>

CacheSet(args) == nops < MaxCacheOps /\ CacheSetAs(args, <<nops + 1>>)

CacheGet(args) == nops < MaxCacheOps /\ CacheGetOf(args)

CacheInvalidate(ids) == nops < MaxCacheOps /\ CacheInvalidateOf(ids)

\* the clock moves on by a millisecond, or by a millisecond less than the
\* TTL of the instance
Tick ==
    /\ nops < MaxCacheOps
    /\ \E d \in {1, cacheConfigs[inst].ttl - 1} : now' = now + d
    /\ nops' = nops + 1
    /\ UNCHANGED <<inst, cop, hist, commitCache, repoCache, changelogCache,
                   tokenHealthCache>>

\* the variables of the generation route other than the commit cache
routeRest ==
    <<rpc, req, rcommits, rgroups, renderer, response, changelogs, openaiKey,
      handled, atStart>>

InitTtl ==
    /\ inst = "commits"
    /\ now = 0
    /\ nops = 0
    /\ cop = noCacheOp
    /\ hist = <<>>
    /\ repoCache = <<>>
    /\ changelogCache = <<>>
    /\ tokenHealthCache = <<>>
    /\ keyIdle
    /\ handlersIdle
    /\ limiterIdle
    /\ renderIdle
    /\ ownerIdle
    /\ tablesIdle
    /\ groupIdle
    /\ fetchIdle
    /\ routeIdle

NextTtl ==
    \/ (CacheSet(CacheArgs(inst)) /\ UNCHANGED <<keyVars, limiterVars, renderVars, ownerVars, apiVars, groupVars, fetchVars, routeRest>>)
    \/ (CacheGet(CacheArgs(inst)) /\ UNCHANGED <<keyVars, limiterVars, renderVars, ownerVars, apiVars, groupVars, fetchVars, routeRest>>)
    \/ (CacheInvalidate(CacheIds) /\ UNCHANGED <<keyVars, limiterVars, renderVars, ownerVars, apiVars, groupVars, fetchVars, routeRest>>)
    \/ (Tick /\ UNCHANGED <<keyVars, limiterVars, renderVars, ownerVars, apiVars, groupVars, fetchVars, routeRest>>)

SpecTtl == InitTtl /\ [][NextTtl]_vars

-----------------------------------------------------------------------------
(* The cache layer on its own: an instance is filled to its capacity and   *)
(* beyond.                                                                 *)

\* calls made on an instance beyond the number that fills it
MaxOverflow == 2

\* the entries of a full instance, counted from the least recently used,
\* that a call may name
MaxProbe == 1

DigitChars == <<"0","1","2","3","4","5","6","7","8","9">>

\* `${n}` for a number n
RECURSIVE digitsOf(_)
digitsOf(n) ==
    IF n < 10 THEN <<DigitChars[n + 1]>>
    ELSE digitsOf(n \div 10) \o <<DigitChars[(n % 10) + 1]>>

\* the arguments of the wrappers for the repository or user number n
numberedArgs(i, n) ==
    IF i \in {"commits", "changelogs"}
    THEN <<digitsOf(n), undefined, undefined>>
    ELSE <<digitsOf(n), <<"g","i","t","h","u","b">>>>

\* the numbers of the entries at the least recently used end of the full
\* instance
probeNumbers ==
    IF Len(storeOf(inst)) < cacheConfigs[inst].max THEN {}
    ELSE {storeOf(inst)[j].value[1] :
            j \in 1..(IF MaxProbe < Len(storeOf(inst)) THEN MaxProbe
                      ELSE Len(storeOf(inst)))}

\* a set under a key that was never set before
FillSet ==
    /\ nops < cacheConfigs[inst].max + MaxOverflow
    /\ CacheSetAs({numberedArgs(inst, nops + 1)}, <<nops + 1>>)

\* a set under a key the full instance holds
ProbeSet ==
    /\ nops < cacheConfigs[inst].max + MaxOverflow
    /\ \E n \in probeNumbers : CacheSetAs({numberedArgs(inst, n)}, <<n>>)

\* a get of a key the full instance holds
ProbeGet ==
    /\ nops < cacheConfigs[inst].max + MaxOverflow
    /\ CacheGetOf({numberedArgs(inst, n) : n \in probeNumbers})

\* an invalidation on the full instance
ProbeInvalidate ==
    /\ nops < cacheConfigs[inst].max + MaxOverflow
    /\ Len(storeOf(inst)) >= cacheConfigs[inst].max
    /\ CacheInvalidateOf({<<"1">>})

InitLru ==
    /\ inst \in Instances
    /\ now = 0
    /\ nops = 0
    /\ cop = noCacheOp
    /\ hist = <<>>
    /\ repoCache = <<>>
    /\ changelogCache = <<>>
    /\ tokenHealthCache = <<>>
    /\ keyIdle
    /\ handlersIdle
    /\ limiterIdle
    /\ renderIdle
    /\ ownerIdle
    /\ tablesIdle
    /\ groupIdle
    /\ fetchIdle
    /\ routeIdle

NextLru ==
    \/ (FillSet /\ UNCHANGED <<keyVars, limiterVars, renderVars, ownerVars, apiVars, groupVars, fetchVars, routeRest>>)
    \/ (ProbeSet /\ UNCHANGED <<keyVars, limiterVars, renderVars, ownerVars, apiVars, groupVars, fetchVars, routeRest>>)
    \/ (ProbeGet /\ UNCHANGED <<keyVars, limiterVars, renderVars, ownerVars, apiVars, groupVars, fetchVars, routeRest>>)
    \/ (ProbeInvalidate /\ UNCHANGED <<keyVars, limiterVars, renderVars, ownerVars, apiVars, groupVars, fetchVars, routeRest>>)

SpecLru == InitLru /\ [][NextLru]_vars

-----------------------------------------------------------------------------
(* POST /api/changelog/generate *)

\* startRef and endRef of the request body; both are optional
RefPairs == {<<Undefined, Undefined>>, <<"v1", "v2">>, <<"v1", Undefined>>}

\* a || b on reference names
orElse(a, b) == IF a = Undefined THEN b ELSE a

\* the characters of the names that go into cache keys
chars ==
    [ github |-> <<"g","i","t","h","u","b">>,
      gitlab |-> <<"g","i","t","l","a","b">>,
      acme   |-> <<"a","c","m","e">>,
      app    |-> <<"a","p","p">>,
      lib    |-> <<"l","i","b">>,
      v1     |-> <<"v","1">>,
      v2     |-> <<"v","2">>,
      HEAD   |-> <<"H","E","A","D">>,
      u1     |-> <<"u","1">>,
      u2     |-> <<"u","2">>,
      r1     |-> <<"r","1">>,
      r2     |-> <<"r","2">>,
      r3     |-> <<"r","3">> ]

\* generateCacheKey('commits', {repoId, fromRef, toRef}) of a call that
\* passes the repoId alone
commitsKey(repoId) == wrapperKey("commits", <<repoId, undefined, undefined>>)

\* the cacheKey string of the route, passed as the repoId of CommitCache
routeCacheKey(repo, startRef, endRef) ==
    chars[repo.provider] \o <<":">> \o chars[repo.repo_owner] \o <<"/">>
        \o chars[repo.repo_name] \o <<":">> \o chars[orElse(startRef, "HEAD")]
        \o <<":">> \o chars[orElse(endRef, "HEAD")]

\* CommitCache.get(cacheKey): whether it hit, the value, and the instance
\* after the call
CommitCacheGet(cache, cacheKey, t, atExpiry) ==
    wrapperGet("commits", cache, <<cacheKey, undefined, undefined>>, t,
               atExpiry)

\* the instance holds an entry under the key of cacheKey
CommitCacheHas(cache, cacheKey) == commitsKey(cacheKey) \in keysOf(cache)

\* CommitCache.set(cacheKey, data)
CommitCacheSet(cache, cacheKey, data, t) ==
    wrapperSet("commits", cache, <<cacheKey, undefined, undefined>>, data, t)

\* the route stores every fetched list
cacheAfterFetchAlways(cache, cacheKey, cs, t) ==
    CommitCacheSet(cache, cacheKey, cs, t)

\* if (commits && commits.length > 0) CommitCache.set(cacheKey, commits)
cacheAfterFetch(cache, cacheKey, cs, t) ==
    IF Len(cs) > 0 THEN CommitCacheSet(cache, cacheKey, cs, t) ELSE cache

\* the entry an instance holds under a key, which is there
entryOf(S, key) == S[indexOfKey(S, key)]

\* an entry is held under the key and its age is below the TTL
isFresh(which, S, key, t) ==
    /\ key \in keysOf(S)
    /\ t - entryOf(S, key).start < cacheConfigs[which].ttl

\* what a handler's lookup found, for the properties
lookupOf(route, which, S, key, got) ==
    [ route |-> route,
      fresh |-> isFresh(which, S, key, now),
      hit   |-> got.hit,
      held  |-> IF key \in keysOf(S) THEN entryOf(S, key).value ELSE <<>>,
      stale |-> key \in stale[which] ]

\* the keys marked stale after an instance became T by a call that wrote
\* the keys written
staleAfter(which, T, written) ==
    [stale EXCEPT ![which] = (@ \ written) \cap keysOf(T)]

handlerVars == <<discover, connect, tokenPost, health, export>>

tableVars == <<repos, tokens>>

\* the adapter call the route makes for a repository and the references
adapterCall(repo, startRef, endRef) ==
    IF repo.provider = "github"
    THEN [ provider |-> "github", includeDetails |-> TRUE,
           args |-> IF startRef # Undefined /\ endRef # Undefined
                    THEN <<startRef, endRef>>
                    ELSE <<Undefined, Undefined>> ]
    ELSE [ provider |-> "gitlab", includeDetails |-> TRUE,
           args |-> <<orElse(endRef, repo.default_branch), startRef, endRef>> ]

\* the request ends with a response
respond(status, error) ==
    /\ response' = [status |-> status, error |-> error]
    /\ rpc' = "idle"

\* a thrown exception is logged and answered with the same response as any
\* other failure
afterThrowGeneric == [status |-> 500, error |-> "Failed to generate changelog"]

\* the response to a request that found no commits
emptyResponse == [status |-> 404, error |-> "No commits found"]

\* !commits || commits.length === 0
isEmptyResult(cs) == Len(cs) = 0

\* the route from the moment it holds the commits cs up to its next await:
\* the empty check, the grouping and the choice of the renderer
Continue(r, cs) ==
    /\ rcommits' = cs
    /\ IF isEmptyResult(cs)
       THEN /\ rgroups' = noGroups
            /\ renderer' = "none"
            /\ respond(emptyResponse.status, emptyResponse.error)
       ELSE LET g == groupCommitsByType(cs)
            IN  /\ rgroups' = g
                /\ IF g.threw
                   THEN /\ renderer' = "none"
                        /\ respond(afterThrowGeneric.status,
                                   afterThrowGeneric.error)
                   ELSE IF r.useAi /\ openaiKey
                   THEN /\ renderer' = "none"
                        /\ rpc' = "ai"
                        /\ response' = noResponse
                   ELSE /\ renderer' = "rule"
                        /\ rpc' = "saving"
                        /\ response' = noResponse

\* no adapter call belongs to the request
fetchReset ==
    /\ call' = noCall
    /\ apc' = "idle"
    /\ primaryStatus' = "none"
    /\ primary' = <<>>
    /\ detail' = <<>>
    /\ enriched' = <<>>
    /\ issued' = <<>>
    /\ arrivals' = <<>>

\* the requests the route is sent: the rate limiter's verdict, the session,
\* the validity of the body, the repository and the references asked for,
\* and whether a token is stored for the user
RequestInputs ==
    [ limited : BOOLEAN, user : Users \cup {"none"}, valid : BOOLEAN,
      repoId : RepoIds, refs : RefPairs, useAi : BOOLEAN,
      hasToken : BOOLEAN ]

\* A request arrives and runs up to its first answer or to the await of the
\* adapter.
ReceiveRequestFrom(inputs) ==
    /\ rpc = "idle"
    /\ handled < MaxRequests
    /\ handled' = handled + 1
    /\ atStart' = [cache |-> commitCache, rows |-> changelogs]
    /\ UNCHANGED <<keyVars, limiterVars, renderVars, ownerVars, cacheVars, tableVars, handlerVars, owed,
                   groupVars, changelogs, openaiKey>>
    /\ \E in \in inputs :
          LET r == [ user |-> in.user, repoId |-> in.repoId,
                     startRef |-> in.refs[1], endRef |-> in.refs[2],
                     useAi |-> in.useAi ]
              found == {x \in repos : x.id = r.repoId /\ x.user_id = r.user}
              early(status, error) ==
                  /\ UNCHANGED <<commitCache, stale>>
                  /\ lookup' = noLookup
                  /\ rcommits' = <<>>
                  /\ rgroups' = noGroups
                  /\ renderer' = "none"
                  /\ fetchReset
                  /\ respond(status, error)
          IN  /\ req' = r
              /\ IF in.limited
                 THEN early(429, "Generation rate limit exceeded")
                 ELSE IF r.user = "none"
                 THEN early(401, "Unauthorized")
                 ELSE IF ~in.valid
                 THEN early(afterThrowGeneric.status, afterThrowGeneric.error)
                 ELSE IF found = {}
                 THEN early(404, "Repository not found")
                 ELSE IF ~in.hasToken
                 THEN early(401, "Access token not found")
                 ELSE \E atExpiry \in BOOLEAN :
                      LET repo == CHOOSE x \in found : TRUE
                          cacheKey == routeCacheKey(repo, r.startRef, r.endRef)
                          got == CommitCacheGet(commitCache, cacheKey, now,
                                                atExpiry)
                      IN  /\ commitCache' = got.store
                          /\ stale' = staleAfter("commits", got.store, {})
                          /\ lookup' = lookupOf("generate", "commits",
                                                commitCache,
                                                commitsKey(cacheKey), got)
                          /\ IF got.hit
                             THEN /\ fetchReset
                                  /\ Continue(r, got.value)
                             ELSE /\ call' = adapterCall(repo, r.startRef,
                                                         r.endRef)
                                  /\ apc' = "primary"
                                  /\ primaryStatus' = "pending"
                                  /\ primary' = <<>>
                                  /\ detail' = <<>>
                                  /\ enriched' = <<>>
                                  /\ issued' = <<>>
                                  /\ arrivals' = <<>>
                                  /\ rcommits' = <<>>
                                  /\ rgroups' = noGroups
                                  /\ renderer' = "none"
                                  /\ response' = noResponse
                                  /\ rpc' = "fetching"

ReceiveRequest == ReceiveRequestFrom(RequestInputs)

theRepo == CHOOSE x \in Repos : x.id = req.repoId

\* the adapter threw: the catch of the route answers
FetchThrew ==
    /\ rpc = "fetching"
    /\ apc = "threw"
    /\ respond(afterThrowGeneric.status, afterThrowGeneric.error)
    /\ UNCHANGED <<restVars, groupVars, fetchVars, req, rcommits, rgroups, renderer,
                   commitCache, changelogs, openaiKey, handled, atStart>>

\* the users of the last sets, after a call of a user that set the key or
\* did not
storerAfter(pairs, key, user, wasSet) ==
    IF wasSet
    THEN {p \in pairs : p[1] # key} \cup {<<key, user>>}
    ELSE pairs

\* the adapter returned: the list is cached when it is not empty and the
\* route goes on
FetchReturned ==
    /\ rpc = "fetching"
    /\ apc = "returned"
    /\ LET cacheKey == routeCacheKey(theRepo, req.startRef, req.endRef)
           T == cacheAfterFetch(commitCache, cacheKey, enriched, now)
       IN  /\ commitCache' = T
           /\ stale' = staleAfter("commits", T,
                                  IF T = commitCache THEN {}
                                  ELSE {commitsKey(cacheKey)})
           /\ storedBy' = storerAfter(storedBy, commitsKey(cacheKey),
                                      req.user, T # commitCache)
    /\ Continue(req, enriched)
    /\ UNCHANGED <<keyVars, limiterVars, renderVars, cacheVars, tableVars, handlerVars, lookup, owed,
                   groupVars, fetchVars, req, changelogs, openaiKey, handled,
                   atStart>>

\* the failure is swallowed and formatAsMarkdown renders instead
aiFailureFallsBack ==
    [rpc |-> "saving", renderer |-> "rule", response |-> noResponse]

\* generateAiSummaryWithDiffs rethrows as 'Failed to generate AI summary';
\* nothing between the call and the catch of the route handles it
aiFailure ==
    [rpc |-> "idle", renderer |-> "none", response |-> afterThrowGeneric]

\* generateAiSummaryWithDiffs returns the text, or throws
AiResponds ==
    /\ rpc = "ai"
    /\ \E ok \in BOOLEAN :
          IF ok
          THEN /\ renderer' = "ai"
               /\ rpc' = "saving"
               /\ UNCHANGED response
          ELSE /\ renderer' = aiFailure.renderer
               /\ rpc' = aiFailure.rpc
               /\ response' = aiFailure.response
    /\ UNCHANGED <<restVars, groupVars, fetchVars, req, rcommits, rgroups, commitCache,
                   changelogs, openaiKey, handled, atStart>>

\* the row the route inserts
changelogRow ==
    [ user_id |-> req.user,
      repo_id |-> theRepo.id,
      tag_start |-> req.startRef,
      tag_end |-> req.endRef,
      commit_count |-> Len(rcommits),
      markdown |-> renderer ]

\* the insert into changelogs succeeds, or gives insertError
InsertResponds ==
    /\ rpc = "saving"
    /\ \E ok \in BOOLEAN :
          IF ok
          THEN /\ changelogs' = Append(changelogs, changelogRow)
               /\ respond(200, "none")
          ELSE /\ respond(500, "Failed to save changelog")
               /\ UNCHANGED changelogs
    /\ UNCHANGED <<restVars, groupVars, fetchVars, req, rcommits, rgroups, renderer,
                   commitCache, openaiKey, handled, atStart>>

\* the lists the provider answers a generation request with
RouteLists == {l \in ProviderLists : Len(l) <= MaxRouteBatch}

Init ==
    /\ groupIdle
    /\ fetchIdle
    /\ restIdle
    /\ rpc = "idle"
    /\ req = noReq
    /\ rcommits = <<>>
    /\ rgroups = noGroups
    /\ renderer = "none"
    /\ response = noResponse
    /\ commitCache = <<>>
    /\ changelogs = <<>>
    /\ openaiKey \in BOOLEAN
    /\ handled = 0
    /\ atStart = [cache |-> <<>>, rows |-> <<>>]

Next ==
    \/ ReceiveRequest
    \/ (PrimaryFails /\ UNCHANGED <<restVars, groupVars, routeVars>>)
    \/ (PrimaryResponds(RouteLists) /\ UNCHANGED <<restVars, groupVars, routeVars>>)
    \/ (DetailSettles /\ UNCHANGED <<restVars, groupVars, routeVars>>)
    \/ (AdapterReturns /\ UNCHANGED <<restVars, groupVars, routeVars>>)
    \/ FetchThrew
    \/ FetchReturned
    \/ AiResponds
    \/ InsertResponds

Spec == Init /\ [][Next]_vars

-----------------------------------------------------------------------------
(* GET /api/repos/discover, POST /api/repos and DELETE /api/repos, next   *)
(* to the generation route.                                                *)

\* requests to the handlers and clock steps in one behaviour
MaxApiOps == 3

\* one more request or clock step may come
apiBudget == nops + handled < MaxApiOps

\* the users of these handlers: a session of the first user, or none
ApiUsers == {"u1", "none"}

\* a handler answered its request r
answered(r, status, error, body) ==
    [ pc |-> "idle", req |-> r,
      resp |-> [status |-> status, error |-> error, body |-> body] ]

\* the request of a handler that answered before it read the parameters
unread == <<>>

\* a handler awaits something for its request r
suspended(at, r) == [pc |-> at, req |-> r, resp |-> noAnswer]

\* the arguments RepoCache and TokenHealthCache are called with
userArgs(userId, provider) == <<chars[userId], chars[provider]>>

\* the non-empty lists a provider answers a discovery with, and the empty one
DiscoverLists == { <<>>, <<"app">>, <<"app", "lib">> }

\* searchParams.get('provider')
ProviderParams == Providers \cup {"bitbucket"}

\* RepoCache.get with the key built from the user alone
RepoCacheGetNoProvider(cache, userId, provider, t, atExpiry) ==
    wrapperGet("repos", cache, <<chars[userId], undefined>>, t, atExpiry)

\* RepoCache.get(userId, provider)
RepoCacheGet(cache, userId, provider, t, atExpiry) ==
    wrapperGet("repos", cache, userArgs(userId, provider), t, atExpiry)

\* GET /api/repos/discover up to its answer or to the await of the provider
DiscoverRequest ==
    /\ discover.pc = "idle"
    /\ apiBudget
    /\ nops' = nops + 1
    /\ \E limited \in BOOLEAN, user \in ApiUsers,
          provider \in ProviderParams :
          LET r == [user |-> user, provider |-> provider]
              early(status, error) ==
                  /\ discover' = answered(unread, status, error, <<>>)
                  /\ lookup' = noLookup
                  /\ UNCHANGED repoCache
          IN  IF limited
              THEN early(429, "Too many requests")
              ELSE IF user = "none"
              THEN early(401, "Unauthorized")
              ELSE IF provider \notin {"github", "gitlab"}
              THEN early(400, "Valid provider (github/gitlab) is required")
              ELSE \E atExpiry \in BOOLEAN, hasToken \in BOOLEAN :
                   LET got == RepoCacheGet(repoCache, user, provider, now,
                                           atExpiry)
                   IN  /\ repoCache' = got.store
                       /\ lookup' =
                             lookupOf("discover", "repos", repoCache,
                                      wrapperKey("repos",
                                                 userArgs(user, provider)),
                                      got)
                       /\ discover' =
                             IF got.hit
                             THEN answered(r, 200, "none", got.value)
                             ELSE IF ~hasToken
                             THEN answered(r, 401, "No access token found",
                                           <<>>)
                             ELSE suspended("fetching", r)
    /\ UNCHANGED <<groupVars, fetchVars, routeVars, keyVars, limiterVars, renderVars, ownerVars, tableVars,
                   connect, tokenPost, health, export, owed, stale, now,
                   changelogCache, tokenHealthCache, inst, cop, hist>>

\* the pairs of user and provider of a set of RepoCache entries written
settled(o, pairs) ==
    [claimed |-> o.claimed \ pairs, documented |-> o.documented \ pairs]

\* the answer of fetchGitHubRepos / fetchGitLabProjects arrives, a list or a
\* failure; the handler goes on when its continuation is run
arrived(r, threw, list) ==
    [ pc |-> "fetched", req |-> r,
      resp |-> [status |-> 0, error |-> IF threw THEN "threw" ELSE "none",
                body |-> IF threw THEN <<>> ELSE list] ]

DiscoverProviderAnswers ==
    /\ discover.pc = "fetching"
    /\ \E threw \in BOOLEAN, list \in DiscoverLists :
          discover' = arrived(discover.req, threw, list)
    /\ UNCHANGED <<groupVars, fetchVars, routeVars, keyVars, limiterVars,
                   renderVars, ownerVars, tableVars, connect, tokenPost,
                   health, export, lookup, owed, stale, now, repoCache,
                   changelogCache, tokenHealthCache, inst, nops, cop, hist>>

\* the handler is suspended with the answer of the provider at hand
discoverHolds == discover.pc \in {"fetched", "overtaken"}

\* the discovery that was overtaken by an invalidation stores nothing
cacheAfterDiscoverUnlessOvertaken(cache, r, list, t, overtaken) ==
    IF Len(list) > 0 /\ ~overtaken
    THEN wrapperSet("repos", cache, userArgs(r.user, r.provider), list, t)
    ELSE cache

\* if (repos && repos.length > 0) RepoCache.set(user.id, provider, repos)
cacheAfterDiscover(cache, r, list, t, overtaken) ==
    IF Len(list) > 0
    THEN wrapperSet("repos", cache, userArgs(r.user, r.provider), list, t)
    ELSE cache

\* the handler goes on after fetchGitHubRepos / fetchGitLabProjects returned
\* a list or threw
DiscoverFetchResponds ==
    /\ discoverHolds
    /\ LET r == discover.req
           threw == discover.resp.error = "threw"
           list == discover.resp.body
           key == wrapperKey("repos", userArgs(r.user, r.provider))
       IN  IF threw
           THEN /\ discover' = answered(r, 500,
                                        "Failed to discover repositories",
                                        <<>>)
                /\ UNCHANGED <<repoCache, owed, stale>>
           ELSE /\ discover' = answered(r, 200, "none", list)
                /\ repoCache' =
                      cacheAfterDiscover(repoCache, r, list, now,
                                         discover.pc = "overtaken")
                /\ IF Len(list) > 0
                   THEN /\ owed' = settled(owed, {<<r.user, r.provider>>})
                        /\ stale' =
                              [stale EXCEPT !.repos =
                                  IF discover.pc = "overtaken"
                                  THEN @ \cup {key} ELSE @ \ {key}]
                   ELSE UNCHANGED <<owed, stale>>
    /\ UNCHANGED <<groupVars, fetchVars, routeVars, keyVars, limiterVars,
                   renderVars, ownerVars, tableVars, connect, tokenPost,
                   health, export, lookup, now, changelogCache,
                   tokenHealthCache, inst, nops, cop, hist>>

\* POST /api/repos up to its answer or to the await of the insert; the body
\* names a repository of the user that is not connected
PostRepo ==
    /\ connect.pc = "idle"
    /\ apiBudget
    /\ nops' = nops + 1
    /\ \E limited \in BOOLEAN, user \in ApiUsers,
          valid \in BOOLEAN, hasToken \in BOOLEAN :
       \E row \in {x \in Repos \ repos : user \in {"none", x.user_id}} :
          LET r == [method |-> "POST", user |-> user, row |-> row]
          IN  connect' =
                 IF limited
                 THEN answered(unread, 429, "Too many requests", <<>>)
                 ELSE IF user = "none"
                 THEN answered(unread, 401, "Unauthorized", <<>>)
                 ELSE IF ~valid
                 THEN answered(unread, 500, "Internal server error", <<>>)
                 ELSE IF ~hasToken
                 THEN answered(r, 401, "No access token found", <<>>)
                 ELSE suspended("inserting", r)
    /\ UNCHANGED <<groupVars, fetchVars, routeVars, keyVars, limiterVars, renderVars, ownerVars, tableVars,
                   discover, tokenPost, health, export, lookup, owed, stale,
                   now, repoCache, changelogCache, tokenHealthCache, inst,
                   cop, hist>>

\* no list is invalidated
invalidateAfterAddNone(cache, userId, provider) == cache

\* the provider alone is invalidated and the user's other list stays
invalidateAfterAdd(cache, userId, provider) ==
    wrapperInvalidateOne("repos", cache, chars[userId], chars[provider])

\* bookkeeping: a discovery of the user and provider that holds the answer
\* of the provider when their list is invalidated holds a list from before
\* the invalidation
overtakenBy(userId, provider) ==
    IF /\ discover.pc = "fetched"
       /\ discover.req.user = userId
       /\ discover.req.provider = provider
    THEN [discover EXCEPT !.pc = "overtaken"]
    ELSE discover

\* the insert into repos succeeds, and the handler invalidates and answers,
\* or gives insertError
RepoInsertResponds ==
    /\ connect.pc = "inserting"
    /\ \E ok \in BOOLEAN :
          LET r == connect.req
          IN  IF ok
              THEN /\ repos' = repos \cup {r.row}
                   /\ repoCache' =
                         invalidateAfterAdd(repoCache, r.user, r.row.provider)
                   /\ owed' =
                         [ claimed |-> owed.claimed
                               \cup {<<r.user, p>> : p \in Providers},
                           documented |-> owed.documented
                               \cup {<<r.user, r.row.provider>>} ]
                   /\ discover' = overtakenBy(r.user, r.row.provider)
                   /\ connect' = answered(r, 200, "none", r.row.id)
              ELSE /\ connect' = answered(r, 500, "Failed to add repository",
                                          <<>>)
                   /\ UNCHANGED <<repos, repoCache, owed, discover>>
    /\ UNCHANGED <<groupVars, fetchVars, routeVars, keyVars, limiterVars,
                   renderVars, ownerVars, tokens,
                   tokenPost, health, export, lookup, stale, now,
                   changelogCache, tokenHealthCache, inst, nops, cop, hist>>

\* searchParams.get('id')
IdParams == {"r1", "r2", Undefined}

\* DELETE /api/repos up to its answer or to the await of the delete
DeleteRepo ==
    /\ connect.pc = "idle"
    /\ apiBudget
    /\ nops' = nops + 1
    /\ \E user \in ApiUsers, id \in IdParams :
          LET r == [method |-> "DELETE", user |-> user, id |-> id]
          IN  connect' =
                 IF user = "none"
                 THEN answered(unread, 401, "Unauthorized", <<>>)
                 ELSE IF id = Undefined
                 THEN answered(unread, 400, "Repository ID is required", <<>>)
                 ELSE suspended("deleting", r)
    /\ UNCHANGED <<groupVars, fetchVars, routeVars, keyVars, limiterVars, renderVars, ownerVars, tableVars,
                   discover, tokenPost, health, export, lookup, owed, stale,
                   now, repoCache, changelogCache, tokenHealthCache, inst,
                   cop, hist>>

\* the keys the generation route stores the commits of a repository under
commitKeysOf(row) ==
    {commitsKey(routeCacheKey(row, refs[1], refs[2])) : refs \in RefPairs}

\* the keys of the changelog cache that name the repository
changelogKeysOf(cache, row) ==
    {k \in keysOf(cache) : includes(k, fragmentOf("changelogs", chars[row.id]))}

\* the caches after the deletion of the rows gone, by the handler: the
\* lists of the user are invalidated
cachesAfterDelete(caches, userId, gone) ==
    [caches EXCEPT !.repos = wrapperInvalidate("repos", @, chars[userId])]

\* the delete succeeds, and the handler invalidates and answers, or gives an
\* error; a delete that matches no row succeeds as well
RepoDeleteResponds ==
    /\ connect.pc = "deleting"
    /\ \E ok \in BOOLEAN :
          LET r == connect.req
              gone == {x \in repos : x.id = r.id /\ x.user_id = r.user}
              after == cachesAfterDelete(
                           [repos |-> repoCache, commits |-> commitCache,
                            changelogs |-> changelogCache], r.user, gone)
          IN  IF ok
              THEN /\ repos' = repos \ gone
                   /\ repoCache' = after.repos
                   /\ commitCache' = after.commits
                   /\ changelogCache' = after.changelogs
                   /\ owed' =
                         IF gone = {} THEN owed
                         ELSE [ claimed |-> owed.claimed
                                    \cup {<<r.user, p>> : p \in Providers},
                                documented |-> owed.documented
                                    \cup {<<r.user, p>> : p \in Providers} ]
                   /\ stale' =
                         [stale EXCEPT
                            !.commits = @ \cup
                                (keysOf(after.commits) \cap
                                 UNION {commitKeysOf(row) : row \in gone}),
                            !.changelogs = @ \cup
                                UNION {changelogKeysOf(after.changelogs, row) :
                                          row \in gone}]
                   /\ connect' = answered(r, 200, "none", <<>>)
              ELSE /\ connect' = answered(r, 500,
                                          "Failed to delete repository", <<>>)
                   /\ UNCHANGED <<repos, repoCache, commitCache,
                                  changelogCache, owed, stale>>
    /\ UNCHANGED <<groupVars, fetchVars, keyVars, limiterVars, renderVars, ownerVars, tokens, discover, tokenPost,
                   health, export, lookup, now, tokenHealthCache, inst, nops,
                   cop, hist, rpc, req, rcommits, rgroups, renderer, response,
                   changelogs, openaiKey, handled, atStart>>

\* the steps of the clock: within the shortest TTL, and beyond it
ClockSteps == {cacheConfigs.repos.ttl - 1, 2}

\* time passes
ClockAdvancesBy(steps) ==
    /\ apiBudget
    /\ nops' = nops + 1
    /\ \E d \in steps : now' = now + d
    /\ UNCHANGED <<groupVars, fetchVars, routeVars, keyVars, limiterVars, renderVars, ownerVars, apiVars,
                   repoCache, changelogCache, tokenHealthCache, inst, cop,
                   hist>>

\* the generation requests sent next to the other handlers: valid requests
\* of the two users for the GitHub repository, without the AI renderer
ApiRequestInputs ==
    { in \in [ limited : {FALSE}, user : Users, valid : {TRUE},
               repoId : {"r1", "r2"}, refs : {<<Undefined, Undefined>>},
               useAi : {FALSE}, hasToken : {TRUE} ] :
        \E x \in Repos : x.id = in.repoId /\ x.user_id = in.user }

\* the lists the provider answers these generation requests with
ApiLists == { <<>>, <<1>> }

\* a generation request arrives
ApiReceiveRequest == apiBudget /\ ReceiveRequestFrom(ApiRequestInputs)

\* the tables the handlers start from: every repository is connected, or
\* the first user has not connected the GitHub repository yet
InitApi ==
    /\ groupIdle
    /\ fetchIdle
    /\ routeIdle
    /\ keyIdle
    /\ cacheIdle
    /\ handlersIdle
    /\ limiterIdle
    /\ renderIdle
    /\ ownerIdle
    /\ repos \in {Repos, {x \in Repos : x.id # "r1"}}
    /\ tokens = [pair \in Users \X Providers |-> 0]

NextApi ==
    \/ ApiReceiveRequest
    \/ (PrimaryFails /\ UNCHANGED <<restVars, groupVars, routeVars>>)
    \/ (PrimaryResponds(ApiLists) /\ UNCHANGED <<restVars, groupVars, routeVars>>)
    \/ (DetailSettles /\ UNCHANGED <<restVars, groupVars, routeVars>>)
    \/ (AdapterReturns /\ UNCHANGED <<restVars, groupVars, routeVars>>)
    \/ FetchThrew
    \/ FetchReturned
    \/ InsertResponds
    \/ DiscoverRequest
    \/ DiscoverProviderAnswers
    \/ DiscoverFetchResponds
    \/ PostRepo
    \/ RepoInsertResponds
    \/ DeleteRepo
    \/ RepoDeleteResponds
    \/ ClockAdvancesBy(ClockSteps)

SpecApi == InitApi /\ [][NextApi]_vars

-----------------------------------------------------------------------------
(* POST /api/provider-tokens and GET /api/token-health *)

\* the token-health cache after a token of the user was saved: the handler
\* makes no call on it
healthAfterTokenSaved(cache, userId, provider) == cache

\* POST /api/provider-tokens up to its answer or to the await of the upsert
TokenPost ==
    /\ tokenPost.pc = "idle"
    /\ apiBudget
    /\ nops' = nops + 1
    /\ \E limited \in BOOLEAN, user \in ApiUsers, valid \in BOOLEAN,
          provider \in Providers :
          LET r == [user |-> user, provider |-> provider]
          IN  tokenPost' =
                 IF limited
                 THEN answered(unread, 429, "Too many requests", <<>>)
                 ELSE IF user = "none"
                 THEN answered(unread, 401, "Unauthorized", <<>>)
                 ELSE IF ~valid
                 THEN answered(unread, 500, "Internal server error", <<>>)
                 ELSE suspended("upserting", r)
    /\ UNCHANGED <<groupVars, fetchVars, routeVars, keyVars, limiterVars, renderVars, ownerVars, tableVars,
                   discover, connect, health, export, lookup, owed, stale,
                   now, repoCache, changelogCache, tokenHealthCache, inst,
                   cop, hist>>

\* the upsert into provider_tokens succeeds and the handler answers, or it
\* gives upsertError
TokenUpsertResponds ==
    /\ tokenPost.pc = "upserting"
    /\ \E ok \in BOOLEAN :
          LET r == tokenPost.req
              T == healthAfterTokenSaved(tokenHealthCache, r.user, r.provider)
          IN  IF ok
              THEN /\ tokens' = [tokens EXCEPT ![<<r.user, r.provider>>] = @ + 1]
                   /\ tokenHealthCache' = T
                   /\ stale' =
                         [stale EXCEPT !.tokenHealth = @ \cup
                            (keysOf(T) \cap
                             {wrapperKey("tokenHealth",
                                         userArgs(r.user, r.provider))})]
                   /\ tokenPost' = answered(r, 200, "none", <<>>)
              ELSE /\ tokenPost' = answered(r, 500, "Failed to save token",
                                            <<>>)
                   /\ UNCHANGED <<tokens, tokenHealthCache, stale>>
    /\ UNCHANGED <<groupVars, fetchVars, routeVars, keyVars, limiterVars, renderVars, ownerVars, repos, discover,
                   connect, health, export, lookup, owed, now, repoCache,
                   changelogCache, inst, nops, cop, hist>>

\* TokenHealthCache.get(userId, provider)
TokenHealthCacheGet(cache, userId, provider, t, atExpiry) ==
    wrapperGet("tokenHealth", cache, userArgs(userId, provider), t, atExpiry)

\* TokenHealthCache.set(userId, provider, health)
TokenHealthCacheSet(cache, userId, provider, status, t) ==
    wrapperSet("tokenHealth", cache, userArgs(userId, provider), status, t)

\* the status of a health check at time t
healthStatus(valid, reason, t) ==
    [valid |-> valid, reason |-> reason, lastChecked |-> t]

\* GET /api/token-health?provider=... up to its answer or, within
\* validateTokenHealth, to the await of getProviderToken
HealthRequest ==
    /\ health.pc = "idle"
    /\ apiBudget
    /\ nops' = nops + 1
    /\ \E limited \in BOOLEAN, user \in ApiUsers,
          provider \in ProviderParams :
          LET r == [user |-> user, provider |-> provider]
              early(status, error) ==
                  /\ health' = answered(unread, status, error, <<>>)
                  /\ lookup' = noLookup
                  /\ UNCHANGED <<tokenHealthCache, stale>>
          IN  IF limited
              THEN early(429, "Too many requests")
              ELSE IF user = "none"
              THEN early(401, "Unauthorized")
              ELSE IF provider \notin {"github", "gitlab"}
              THEN early(400, "Invalid provider. Must be github or gitlab")
              ELSE \E atExpiry \in BOOLEAN :
                   LET got == TokenHealthCacheGet(tokenHealthCache, user,
                                                  provider, now, atExpiry)
                   IN  /\ tokenHealthCache' = got.store
                       /\ stale' = staleAfter("tokenHealth", got.store, {})
                       /\ lookup' =
                             lookupOf("health", "tokenHealth",
                                      tokenHealthCache,
                                      wrapperKey("tokenHealth",
                                                 userArgs(user, provider)),
                                      got)
                       /\ health' =
                             IF got.hit
                             THEN answered(r, 200, "none", got.value)
                             ELSE suspended("token", r)
    /\ UNCHANGED <<groupVars, fetchVars, routeVars, keyVars, limiterVars, renderVars, ownerVars, tableVars,
                   discover, connect, tokenPost, export, owed, now,
                   repoCache, changelogCache, inst, cop, hist>>

\* validateTokenHealth stores a status and the route answers with it
healthReturns(r, status) ==
    LET T == TokenHealthCacheSet(tokenHealthCache, r.user, r.provider, status,
                                 now)
    IN  /\ tokenHealthCache' = T
        /\ stale' = staleAfter("tokenHealth", T,
                               {wrapperKey("tokenHealth",
                                           userArgs(r.user, r.provider))})
        /\ health' = answered(r, 200, "none", status)

\* getProviderToken answers: without a token the result is 'not_found',
\* with one the token is tested
HealthTokenRead ==
    /\ health.pc = "token"
    /\ LET r == health.req
       IN  IF tokens[<<r.user, r.provider>>] = 0
           THEN healthReturns(r, healthStatus(FALSE, "not_found", now))
           ELSE /\ health' = suspended("testing", r)
                /\ UNCHANGED <<tokenHealthCache, stale>>
    /\ UNCHANGED <<groupVars, fetchVars, routeVars, keyVars, limiterVars, renderVars, ownerVars, tableVars,
                   discover, connect, tokenPost, export, lookup, owed, now,
                   repoCache, changelogCache, inst, nops, cop, hist>>

\* testGitHubToken / testGitLabToken answers
HealthTestResponds ==
    /\ health.pc = "testing"
    /\ \E valid \in BOOLEAN :
          healthReturns(health.req,
                        healthStatus(valid,
                                     IF valid THEN "none" ELSE "invalid",
                                     now))
    /\ UNCHANGED <<groupVars, fetchVars, routeVars, keyVars, limiterVars, renderVars, ownerVars, tableVars,
                   discover, connect, tokenPost, export, lookup, owed, now,
                   repoCache, changelogCache, inst, nops, cop, hist>>

\* the steps of the clock next to the health checks
HealthClockSteps == {cacheConfigs.tokenHealth.ttl - 1, 2}

InitTokens ==
    /\ groupIdle
    /\ fetchIdle
    /\ routeIdle
    /\ restIdle

NextTokens ==
    \/ TokenPost
    \/ TokenUpsertResponds
    \/ HealthRequest
    \/ HealthTokenRead
    \/ HealthTestResponds
    \/ ClockAdvancesBy(HealthClockSteps)

SpecTokens == InitTokens /\ [][NextTokens]_vars

-----------------------------------------------------------------------------
(* GET /api/changelog/[id]/export *)

\* searchParams.get('format'): null without the parameter, else its text
FormatParams ==
    {Undefined, "", "markdown", "json", "html", "text", "pdf", "MARKDOWN"}

\* the formats the validation lets through, with one more
supportedFormatsAndPdf == <<"markdown", "json", "html", "text", "pdf">>

\* ['markdown', 'json', 'html', 'text']
supportedFormats == <<"markdown", "json", "html", "text">>

\* searchParams.get('format') || 'markdown'
formatOf(param) == IF param = Undefined \/ param = "" THEN "markdown" ELSE param

\* [...].includes(format)
isSupported(format) ==
    \E i \in DOMAIN supportedFormats : supportedFormats[i] = format

\* 'Invalid format. Supported formats: markdown, json, html, text'
invalidFormat ==
    [ text |-> "Invalid format. Supported formats:",
      names |-> <<"markdown", "json", "html", "text">> ]

\* the ids of the changelogs asked for: rows are numbered as inserted
ChangelogIds == {1, 2}

\* the query for the changelog was sent
exportLookup == [noLookup EXCEPT !.route = "export"]

\* GET up to its answer or to the await of the changelog query
ExportRequest ==
    /\ export.pc = "idle"
    /\ \E limited \in BOOLEAN, user \in Users \cup {"none"},
          param \in FormatParams, id \in ChangelogIds :
          LET r == [ limited |-> limited, user |-> user, param |-> param,
                     id |-> id ]
              early(status, error) ==
                  /\ export' = answered(r, status, error, <<>>)
                  /\ lookup' = noLookup
          IN  IF limited
              THEN early(429, "Too many requests")
              ELSE IF user = "none"
              THEN early(401, "Unauthorized")
              ELSE IF ~isSupported(formatOf(param))
              THEN early(400, invalidFormat)
              ELSE /\ export' = suspended("query", r)
                   /\ lookup' = exportLookup
    /\ UNCHANGED <<groupVars, fetchVars, routeVars, keyVars, limiterVars, renderVars, ownerVars, cacheVars,
                   tableVars, discover, connect, tokenPost, health, owed,
                   stale>>

\* the row of the changelog with the id that belongs to the user, if any
changelogOf(id, user) ==
    IF id \in DOMAIN changelogs /\ changelogs[id].user_id = user
    THEN <<changelogs[id]>>
    ELSE <<>>

\* the query is answered: without a row the answer is 404, with one the
\* changelog is exported, which may throw
ExportQueryResponds ==
    /\ export.pc = "query"
    /\ \E threw \in BOOLEAN :
          LET r == export.req
              found == changelogOf(r.id, r.user)
          IN  export' =
                 IF found = <<>>
                 THEN answered(r, 404, "Changelog not found", <<>>)
                 ELSE IF threw
                 THEN answered(r, 500, "Failed to export changelog", <<>>)
                 ELSE answered(r, 200, "none",
                               [ format |-> formatOf(r.param),
                                 changelog |-> found[1] ])
    /\ UNCHANGED <<groupVars, fetchVars, routeVars, keyVars, limiterVars, renderVars, ownerVars, cacheVars,
                   tableVars, discover, connect, tokenPost, health, lookup,
                   owed, stale>>

\* a row a generation request of the first user left in the table
exportableRow ==
    [ user_id |-> "u1", repo_id |-> "r1", tag_start |-> "v1",
      tag_end |-> "v2", commit_count |-> 1, markdown |-> "rule" ]

InitExport ==
    /\ groupIdle
    /\ fetchIdle
    /\ restIdle
    /\ rpc = "idle"
    /\ req = noReq
    /\ rcommits = <<>>
    /\ rgroups = noGroups
    /\ renderer = "none"
    /\ response = noResponse
    /\ commitCache = <<>>
    /\ changelogs \in {<<>>, <<exportableRow>>}
    /\ openaiKey = FALSE
    /\ handled = 0
    /\ atStart = [cache |-> <<>>, rows |-> <<>>]

NextExport ==
    \/ ExportRequest
    \/ ExportQueryResponds

SpecExport == InitExport /\ [][NextExport]_vars

-----------------------------------------------------------------------------
(* Properties of the adapter *)

\* what a 2xx detail answer for sha is mapped to
parsedDetails(provider, sha) ==
    IF provider = "github" THEN githubParsed(sha) ELSE gitlabParsed(sha)

detailsOf(record) == [files |-> record.files, stats |-> record.stats]

\* C7: with includeDetails set, whatever the order in which the detail
\* requests are answered, the returned list has the length and the sha order
\* of the primary response, and every record holds the details fetched for
\* its own sha (or none, when its own request failed).
C7_PositionalMerge ==
    (apc = "returned" /\ call.includeDetails) =>
        /\ Len(enriched) = Len(primary)
        /\ \A i \in DOMAIN primary :
              /\ enriched[i].sha = primary[i]
              /\ detailsOf(enriched[i]) \in
                    {parsedDetails(call.provider, primary[i]), emptyDetails}
              /\ detail[i] = "ok" =>
                    detailsOf(enriched[i])
                        = parsedDetails(call.provider, primary[i])

C7_Witness ==
    /\ apc = "returned"
    /\ call.includeDetails
    /\ Len(primary) = 3
    /\ primary[1] > primary[2]
    /\ arrivals = <<3, 1, 2>>
    /\ \A i \in DOMAIN detail : detail[i] = "ok"

\* C8: when detail requests fail (a status outside 2xx, or no answer) the
\* adapter does not throw and returns one record for each commit of the
\* primary response: a commit whose request failed has no files and zero
\* additions and deletions, every other commit has its fetched details.
C8_DetailFailureDegrades ==
    (primaryStatus = "ok" /\ call.includeDetails) =>
        /\ apc # "threw"
        /\ apc = "returned" =>
              /\ Len(enriched) = Len(primary)
              /\ \A i \in DOMAIN primary :
                    /\ enriched[i].sha = primary[i]
                    /\ detail[i] \in {"status", "network"} =>
                          /\ enriched[i].files = <<>>
                          /\ enriched[i].stats.additions = 0
                          /\ enriched[i].stats.deletions = 0
                    /\ detail[i] = "ok" =>
                          /\ enriched[i].files # <<>>
                          /\ detailsOf(enriched[i])
                                = parsedDetails(call.provider, primary[i])

C8_Witness ==
    /\ apc = "returned"
    /\ call.provider = "github"
    /\ call.includeDetails
    /\ Len(primary) = 3
    /\ detail[1] = "ok"
    /\ detail[2] = "network"
    /\ detail[3] = "status"

-----------------------------------------------------------------------------
(* Properties of the generation route *)

\* the commit cache holds what it held when the request came in
cacheUntouched ==
    {commitCache[i] : i \in DOMAIN commitCache}
        \subseteq {atStart.cache[i] : i \in DOMAIN atStart.cache}

\* the changelogs table holds what it held when the request came in
tableUntouched == changelogs = atStart.rows

\* C9: when the list/compare request is answered with a status outside 2xx
\* the adapter throws and sends no detail request; the generation request
\* ends with an error response, inserts no row and writes nothing to the
\* commit cache.
C9_PrimaryFailureIsFatal ==
    (rpc # "idle" \/ handled > 0) /\ primaryStatus = "status" =>
        /\ apc = "threw"
        /\ issued = <<>>
        /\ detail = <<>>
        /\ rpc \in {"fetching", "idle"}
        /\ rpc = "idle" =>
              /\ response.status >= 400
              /\ response = afterThrowGeneric
        /\ renderer = "none"
        /\ tableUntouched
        /\ cacheUntouched

C9_Witness ==
    /\ primaryStatus = "status"
    /\ rpc = "idle"
    /\ response.status = 500
    /\ atStart.cache # <<>>
    /\ atStart.rows # <<>>

\* C10: a generation request whose provider answer holds no commit ends
\* with the 'No commits found' response, which is not the response to a
\* provider failure; no renderer runs, no row is inserted and the empty
\* list is not stored in the commit cache.
C10_EmptyResult ==
    (primaryStatus = "ok" /\ primary = <<>> /\ rpc # "fetching" /\ handled > 0) =>
        /\ rpc = "idle"
        /\ response = emptyResponse
        /\ response # afterThrowGeneric
        /\ rgroups = noGroups
        /\ renderer = "none"
        /\ tableUntouched
        /\ cacheUntouched
        /\ ~CommitCacheHas(commitCache,
                           routeCacheKey(theRepo, req.startRef, req.endRef))

C10_Witness ==
    /\ primaryStatus = "ok"
    /\ primary = <<>>
    /\ rpc = "idle"
    /\ response.status = 404
    /\ atStart.cache # <<>>
    /\ atStart.rows # <<>>

\* the request chose the AI renderer, grouped its commits and did not get
\* the text of the AI
aiCallFailed ==
    /\ rpc = "idle"
    /\ handled > 0
    /\ req.useAi /\ openaiKey
    /\ rgroups # noGroups /\ ~rgroups.threw
    /\ renderer # "ai"

\* C11: when the AI renderer is selected and the generative-text call fails,
\* the request ends in an error, the rule-based renderer is not substituted
\* (neither while the request runs nor at its end) and the changelogs table
\* is what it was when the request arrived.
C11_AiFailureIsFatal ==
    /\ (rpc = "saving" /\ req.useAi /\ openaiKey) => renderer = "ai"
    /\ aiCallFailed =>
          /\ response.status >= 400
          /\ renderer = "none"
          /\ tableUntouched

C11_Witness ==
    /\ aiCallFailed
    /\ response = afterThrowGeneric
    /\ Len(rcommits) > 0

\* C12: the key does not depend on the order of the fields: for any prefix
\* and any two objects holding the same name/value pairs in different
\* insertion order generateCacheKey gives the same key, so the get made with
\* the reordered object finds what the set stored.
C12_KeyOrderIndependent ==
    /\ generateCacheKey(kin.prefix, kin.params) =
          generateCacheKey(kin.prefix, kin.reordered)
    /\ kpc = "done" => kgot.hit /\ kstore = {kgot.key}

C12_Witness ==
    /\ kpc = "done"
    /\ kgot.hit
    /\ Len(kin.params) >= 2
    /\ kin.params # kin.reordered
    /\ ObjectKeys(kin.params) # sortStrings(ObjectKeys(kin.params))

-----------------------------------------------------------------------------
(* Properties of the cache layer *)

\* the time between the set of the key of the last call and that call
ageAtCall == cop.at - hist[cop.key].setAt

\* C13: a commit-cache entry set at time T and neither evicted nor
\* invalidated since is returned, with the value that was set, by every get
\* made up to T + 899999 ms, and is a miss for every get made from
\* T + 900001 ms on, whether or not the expired entry is still held.
C13_TtlWindow ==
    (inst = "commits" /\ cop.op = "get" /\ cop.key \in DOMAIN hist) =>
        /\ ageAtCall <= 899999 =>
              cop.hit /\ cop.value = hist[cop.key].value
        /\ ageAtCall >= 900001 => ~cop.hit

\* a get one millisecond before the expiry hits, one after a later get of
\* the same entry one millisecond past the expiry would miss
C13_Witness ==
    /\ inst = "commits"
    /\ cop.op = "get"
    /\ cop.key \in DOMAIN hist
    /\ ageAtCall = 900001
    /\ cop.held
    /\ ~cop.hit
    /\ hist[cop.key].used > hist[cop.key].value[1]

\* the capacities of the four instances
claimedCapacity ==
    [commits |-> 500, repos |-> 1000, changelogs |-> 200, tokenHealth |-> 100]

\* C14: whatever gets, sets and invalidations were made, no instance holds
\* more entries than its capacity: commits 500, repos 1000, changelogs 200,
\* token health 100.
C14_CapacityBound ==
    \A i \in Instances : Len(storeOf(i)) <= claimedCapacity[i]

\* a full instance took one more key
C14_Witness ==
    /\ cop.op = "set"
    /\ cop.full
    /\ ~cop.held
    /\ Len(storeOf(inst)) = claimedCapacity[inst]
    /\ nops > claimedCapacity[inst]

\* C15: when a set stores a key the instance does not hold and the instance
\* holds as many entries as its capacity, exactly one entry leaves it: the
\* one whose last get or set lies furthest back; every other entry is still
\* held and the new one is the most recently used.
C15_EvictsLeastRecentlyUsed ==
    (cop.op = "set" /\ cop.size = claimedCapacity[inst] /\ ~cop.held) =>
        /\ Cardinality(cop.removed) = 1
        /\ cop.removed = cop.oldest
        /\ Len(storeOf(inst)) = cop.size
        /\ storeOf(inst)[Len(storeOf(inst))].key = cop.key
        /\ keysOf(storeOf(inst)) = DOMAIN hist

\* the entry that was set first is still held after the eviction: a get or
\* a set had made it recent again
C15_Witness ==
    /\ cop.op = "set"
    /\ cop.size = claimedCapacity[inst]
    /\ ~cop.held
    /\ Cardinality(cop.removed) = 1
    /\ \E k \in DOMAIN hist : hist[k].value[1] = 1 /\ hist[k].used > 1

-----------------------------------------------------------------------------
(* Properties of the handlers around the caches *)

\* RepoCache.get(user, provider) would miss now
repoListMisses(pair) ==
    \A atExpiry \in BOOLEAN :
        ~RepoCacheGet(repoCache, pair[1], pair[2], now, atExpiry).hit

\* C16 as stated: after a user successfully adds or deletes a connected
\* repository, RepoCache.get(user, p) is a miss for both providers until
\* the next set for that user and provider.
C16_BothProvidersMiss == \A pair \in owed.claimed : repoListMisses(pair)

\* C16: after a user successfully adds a repository, RepoCache.get(user, p)
\* is a miss for the provider p of the added repository until the next set
\* for that user and provider; after a user successfully deletes a connected
\* repository it is a miss for both providers until the next set.
C16_ChangedListsMiss == \A pair \in owed.documented : repoListMisses(pair)

C16_Witness ==
    /\ connect.pc = "idle"
    /\ connect.resp.status = 200
    /\ connect.req.method = "POST"
    /\ <<"u1", "github">> \in owed.documented
    /\ lookup.route = "discover"
    /\ repoCache # <<>>

\* C17: after DELETE /api/repos succeeds the commit cache and the changelog
\* cache hold no entry of the deleted repository that was written before
\* the deletion, and no generation request is served from such an entry.
C17_DeletePurgesCaches ==
    /\ stale.commits = {}
    /\ stale.changelogs = {}
    /\ ~(lookup.route = "generate" /\ lookup.hit /\ lookup.stale)

\* C19: when a discovery or a generation request reaches its cache lookup
\* and the instance holds an entry under its key that is younger than the
\* TTL, the lookup hits, the request goes on with the cached value and no
\* provider call is made for it.
C19_CachedResultServed ==
    /\ (lookup.route = "discover" /\ lookup.fresh) =>
          /\ lookup.hit
          /\ discover.pc = "idle"
          /\ discover.resp.status = 200
          /\ discover.resp.body = lookup.held
    /\ (lookup.route = "generate" /\ lookup.fresh) =>
          /\ lookup.hit
          /\ rcommits = lookup.held
          /\ rpc # "fetching"
          /\ apc = "idle"
          /\ call = noCall

C19_Witness ==
    /\ lookup.route = "discover"
    /\ lookup.fresh
    /\ now > 0
    /\ discover.resp.status = 200
    /\ Len(discover.resp.body) > 0

\* C18: after POST /api/provider-tokens saved a token, the token-health
\* cache holds no entry of that user and provider that was written before,
\* and no health check returns such an entry.
C18_TokenUpdateInvalidates ==
    /\ stale.tokenHealth = {}
    /\ ~(lookup.route = "health" /\ lookup.hit /\ lookup.stale)

\* the export handler received a request that passed the rate limiter and
\* the session check
exportReceived ==
    /\ export.pc # "idle" \/ export.resp.status # 0
    /\ ~export.req.limited
    /\ export.req.user # "none"

\* the request was refused for its format, before any query or rendering
exportRefused ==
    /\ export.pc = "idle"
    /\ export.resp.status = 400
    /\ {export.resp.error.names[i] : i \in DOMAIN export.resp.error.names}
          = {"markdown", "json", "html", "text"}
    /\ export.resp.body = <<>>
    /\ lookup.route # "export"

\* C20 as stated: an export request whose format token is not one of
\* markdown, json, html, text is rejected with an error that names those
\* four formats, and no changelog is looked up or rendered for it.
C20_UnknownFormatRefused ==
    (/\ exportReceived
     /\ export.req.param # Undefined
     /\ export.req.param \notin {"markdown", "json", "html", "text"})
        => exportRefused

\* C20: an export request whose format token is not empty and is not one
\* of markdown, json, html, text is rejected with an error that names those
\* four formats, and no changelog is looked up or rendered for it; without
\* a token or with an empty one the request is handled as markdown.
C20_NonEmptyUnknownFormatRefused ==
    /\ (/\ exportReceived
         /\ export.req.param \notin {Undefined, ""}
         /\ export.req.param \notin {"markdown", "json", "html", "text"})
            => exportRefused
    /\ (/\ exportReceived
         /\ export.req.param \in {Undefined, ""}
         /\ export.resp.status = 200)
            => export.resp.body.format = "markdown"

C20_Witness ==
    /\ exportReceived
    /\ export.req.param = "pdf"
    /\ export.req.id \in DOMAIN changelogs
    /\ changelogs[export.req.id].user_id = export.req.user
    /\ exportRefused


(***************************************************************************)
(* The rate limiter (lib/rateLimit): one in-memory store, keyed by the     *)
(* identifier of the client, that the four pre-configured limiters share.  *)
(***************************************************************************)

\* the pre-configured limiters; the time is in milliseconds
rateLimiters ==
    [strict   |-> [windowMs |-> 15 * 60 * 1000, maxRequests |-> 5],
     api      |-> [windowMs |-> 1 * 60 * 1000, maxRequests |-> 60],
     auth     |-> [windowMs |-> 15 * 60 * 1000, maxRequests |-> 10],
     generate |-> [windowMs |-> 5 * 60 * 1000, maxRequests |-> 10]]

Limiters == DOMAIN rateLimiters

\* the headers of the requests: x-user-id, x-forwarded-for (the addresses
\* between its commas, none without the header) and x-real-ip
LimiterHeaders ==
    { [userId |-> "u1", forwarded |-> <<"10.0.0.1", "10.0.0.2">>,
       realIp |-> "10.0.0.9"],
      [userId |-> Undefined, forwarded |-> <<>>, realIp |-> Undefined] }

\* the identifier: the user id before the address, "unknown" without both;
\* <<kind, id>> stands for the string kind:id
getIdentifier(headers) ==
    IF headers.userId # Undefined
    THEN <<"user", headers.userId>>
    ELSE <<"ip", IF headers.forwarded # <<>>
                 THEN Head(headers.forwarded)
                 ELSE IF headers.realIp # Undefined
                      THEN headers.realIp
                      ELSE "unknown">>

\* rateLimitStore[identifier] = entry
putEntry(store, identifier, entry) ==
    [k \in DOMAIN store \cup {identifier} |->
        IF k = identifier THEN entry ELSE store[k]]

\* Math.ceil(ms / 1000)
ceilSeconds(ms) == (ms + 999) \div 1000

\* the window of the identifier is over at t, or it has none
windowOver(store, identifier, t) ==
    \/ identifier \notin DOMAIN store
    \/ store[identifier].resetTime < t

\* a limiter whose rejections start the window again
rateLimitSliding(config, store, identifier, t) ==
    IF windowOver(store, identifier, t)
    THEN [store |-> putEntry(store, identifier,
                        [count |-> 1, resetTime |-> t + config.windowMs]),
          limited |-> FALSE, retryAfter |-> 0]
    ELSE LET counted ==
                 putEntry(store, identifier,
                     [store[identifier] EXCEPT !.count = @ + 1])
         IN  IF counted[identifier].count > config.maxRequests
             THEN [store |-> putEntry(store, identifier,
                                 [counted[identifier] EXCEPT
                                     !.resetTime = t + config.windowMs]),
                   limited |-> TRUE,
                   retryAfter |-> ceilSeconds(config.windowMs)]
             ELSE [store |-> counted, limited |-> FALSE, retryAfter |-> 0]

\* the middleware that rateLimit(config) returns, called at t: the store
\* after the call and the answer (limited: a 429 response, otherwise null)
rateLimit(config, store, identifier, t) ==
    IF windowOver(store, identifier, t)
    THEN [store |-> putEntry(store, identifier,
                        [count |-> 1, resetTime |-> t + config.windowMs]),
          limited |-> FALSE, retryAfter |-> 0]
    ELSE LET counted ==
                 putEntry(store, identifier,
                     [store[identifier] EXCEPT !.count = @ + 1])
         IN  IF counted[identifier].count > config.maxRequests
             THEN [store |-> counted, limited |-> TRUE,
                   retryAfter |->
                       ceilSeconds(counted[identifier].resetTime - t)]
             ELSE [store |-> counted, limited |-> FALSE, retryAfter |-> 0]

\* the callback of setInterval: the entries whose window is over are deleted
cleanup(store, t) ==
    [k \in {i \in DOMAIN store : ~(store[i].resetTime < t)} |-> store[k]]

\* the followed client stops calling the followed limiter when its count is
\* this far beyond the quota
MaxRejections == 1

\* the other limiters are called for the followed client while the count of
\* the window is below this
MaxOtherRequests == 1

\* the other clients call the followed limiter only, this many times in one
\* window
MaxBystanderRequests == 1

\* the clock of the limiter stops here, in minutes
MaxLimiterMinutes == 20

\* the steps of the clock: five minutes
LimiterSteps == {5 * 60 * 1000}

\* the request is one of the client and the limiter that are followed
followed(identifier, limiter) ==
    /\ identifier = through.identifier
    /\ limiter = through.limiter

\* the own window of the followed limiter: it opens with the first request
\* the limiter allows when none is open, and lasts windowMs
ownWindowOpen(t) ==
    /\ served.allowed > 0
    /\ ~(served.until < t)

servedAfter(limiter, t) ==
    IF ownWindowOpen(t)
    THEN [served EXCEPT !.allowed =
              IF @ > rateLimiters[limiter].maxRequests THEN @ ELSE @ + 1]
    ELSE [until |-> t + rateLimiters[limiter].windowMs, allowed |-> 1]

throughAfter(identifier, limiter, fresh) ==
    IF identifier # through.identifier
    THEN through
    ELSE [through EXCEPT
             !.counted = IF limiter # through.limiter
                         THEN (IF fresh THEN 0 ELSE @)
                         ELSE (IF fresh THEN 1 ELSE @ + 1),
             !.windowMs = IF fresh THEN rateLimiters[limiter].windowMs
                          ELSE @]

limiterRest ==
    <<repoCache, changelogCache, tokenHealthCache, inst, nops, cop, hist>>

\* a request with these headers reaches a route that calls this limiter
LimiterRequest(headers, limiter) ==
    LET identifier == getIdentifier(headers)
        fresh == windowOver(rateLimitStore, identifier, now)
        answer == rateLimit(rateLimiters[limiter], rateLimitStore,
                            identifier, now)
    IN  /\ identifier # through.identifier => limiter = through.limiter
        /\ ~fresh =>
               rateLimitStore[identifier].count
                   < (IF followed(identifier, limiter)
                      THEN rateLimiters[limiter].maxRequests + MaxRejections
                      ELSE IF identifier = through.identifier
                      THEN MaxOtherRequests
                      ELSE MaxBystanderRequests)
        /\ rateLimitStore' = answer.store
        /\ through' = throughAfter(identifier, limiter, fresh)
        /\ served' = IF followed(identifier, limiter) /\ ~answer.limited
                     THEN servedAfter(limiter, now)
                     ELSE served
        /\ verdict' =
               IF identifier = through.identifier
               THEN [given |-> TRUE, limiter |-> limiter,
                     limited |-> answer.limited,
                     counted |-> IF followed(identifier, limiter) /\ ~fresh
                                 THEN through.counted
                                 ELSE 0,
                     windowMs |-> through'.windowMs,
                     fresh |-> fresh,
                     over |-> IF fresh /\ identifier \in DOMAIN rateLimitStore
                              THEN rateLimitStore[identifier].count
                              ELSE 0]
               ELSE noVerdict
        /\ UNCHANGED <<now, limiterRest, keyVars, apiVars, groupVars,
                       fetchVars, routeVars, renderVars, ownerVars>>

\* time passes
LimiterClock ==
    /\ \E d \in LimiterSteps :
          /\ now + d <= MaxLimiterMinutes * 60 * 1000
          /\ now' = now + d
    /\ served' = IF served.until < now' THEN noWindow ELSE served
    /\ verdict' = noVerdict
    /\ UNCHANGED <<rateLimitStore, through, limiterRest, keyVars,
                   apiVars, groupVars, fetchVars, routeVars, renderVars, ownerVars>>

\* the interval fires
LimiterCleanup ==
    /\ cleanup(rateLimitStore, now) # rateLimitStore
    /\ rateLimitStore' = cleanup(rateLimitStore, now)
    /\ through' = IF through.identifier \in DOMAIN rateLimitStore'
                  THEN through
                  ELSE [through EXCEPT !.counted = 0, !.windowMs = 0]
    /\ verdict' = noVerdict
    /\ UNCHANGED <<now, served, limiterRest, keyVars, apiVars, groupVars,
                   fetchVars, routeVars, renderVars, ownerVars>>

InitLimiter ==
    /\ now = 0
    /\ repoCache = <<>>
    /\ changelogCache = <<>>
    /\ tokenHealthCache = <<>>
    /\ inst = "commits"
    /\ nops = 0
    /\ cop = noCacheOp
    /\ hist = <<>>
    /\ rateLimitStore = <<>>
    /\ verdict = noVerdict
    /\ \E limiter \in Limiters :
          through = [noThrough EXCEPT !.identifier = <<"user", "u1">>,
                                      !.limiter = limiter]
    /\ served = noWindow
    /\ renderIdle
    /\ ownerIdle
    /\ keyIdle
    /\ handlersIdle
    /\ tablesIdle
    /\ groupIdle
    /\ fetchIdle
    /\ routeIdle

LimiterRequestBy(headers) ==
    \E limiter \in Limiters : LimiterRequest(headers, limiter)

NextLimiter ==
    \/ \E headers \in LimiterHeaders : LimiterRequestBy(headers)
    \/ LimiterClock
    \/ LimiterCleanup

SpecLimiter == InitLimiter /\ [][NextLimiter]_vars

\* time passes, and every client goes on asking
SpecLimiterLive ==
    /\ SpecLimiter
    /\ WF_vars(LimiterClock)
    /\ \A headers \in LimiterHeaders : WF_vars(LimiterRequestBy(headers))



(***************************************************************************)
(* The renderers formatAsMarkdown and formatAsJson (lib/changelogLogic).   *)
(* A text is the sequence of its lines, a line the sequence of its parts.  *)
(***************************************************************************)

\* an author date is an ISO string: the wall-clock time it spells, in hours,
\* and its offset from UTC
isoDate(local, offset) == [local |-> local, offset |-> offset]

\* new Date(text).getTime()
getTime(date) == date.local - date.offset

\* new Date(time).toISOString(): the same instant, spelled in UTC
toISOString(time) == isoDate(time, 0)

\* the commits the renderers are given; a commit without stats has <<>> for
\* them, and one without files has none
RenderPool ==
    <<  [ sha |-> <<"a","1","b","2","c","3","d","4","e">>,
          message |-> 1,
          author |-> [name |-> "Ann", email |-> "ann@acme.io",
                      date |-> isoDate(100, 0)],
          url |-> "https://github.com/acme/app/commit/a1b2c3d4e",
          stats |-> [additions |-> 5, deletions |-> 2],
          files |-> << [filename |-> "a.ts", status |-> "added",
                        additions |-> 5, deletions |-> 0,
                        previous_filename |-> "<undefined>"],
                       [filename |-> "b.ts", status |-> "renamed",
                        additions |-> 0, deletions |-> 0,
                        previous_filename |-> "c.ts"],
                       [filename |-> "d.ts", status |-> "copied",
                        additions |-> 0, deletions |-> 2,
                        previous_filename |-> "<undefined>"] >> ],
        [ sha |-> <<"f","0","0","d">>,
          message |-> 5,
          author |-> [name |-> "Bob", email |-> "bob@acme.io",
                      date |-> isoDate(52, 2)],
          url |-> "https://gitlab.com/acme/lib/-/commit/f00d",
          stats |-> <<>>,
          files |-> <<>> ],
        [ sha |-> <<"0","1","2","3","4","5","6","7">>,
          message |-> 13,
          author |-> [name |-> "Ann", email |-> "ann@acme.io",
                      date |-> isoDate(99, -1)],
          url |-> "https://github.com/acme/app/commit/01234567",
          stats |-> [additions |-> 0, deletions |-> 3],
          files |-> <<>> ],
        [ sha |-> <<"c","0","f","f","e","e","0","0">>,
          message |-> 16,
          author |-> [name |-> "Cy", email |-> "cy@acme.io",
                      date |-> isoDate(200, 0)],
          url |-> "https://github.com/acme/app/commit/c0ffee00",
          stats |-> [additions |-> 1, deletions |-> 1],
          files |-> << [filename |-> "e.ts", status |-> "modified",
                        additions |-> 1, deletions |-> 1,
                        previous_filename |-> "<undefined>"] >> ]  >>

\* most commits in one call of a renderer
MaxRenderCommits == 2

\* message.split('\n')[0]
firstLine(s) ==
    IF \E i \in DOMAIN s : s[i] = NL
    THEN SubSeq(s, 1, (CHOOSE i \in DOMAIN s :
                          s[i] = NL /\ \A j \in 1..(i - 1) : s[j] # NL) - 1)
    ELSE s

\* !?: matched at position p of s: the position after the colon, 0 if none
afterColon(s, p) ==
    IF p <= Len(s) /\ s[p] = ":" THEN p + 1
    ELSE IF p + 1 <= Len(s) /\ s[p] = "!" /\ s[p + 1] = ":" THEN p + 2
    ELSE 0

\* (\(.+?\))?!?: matched at position p of s: the position after the colon,
\* 0 if none; the scope is lazy, so it ends at the first ) that lets the
\* rest match
afterScopeColon(s, p) ==
    IF afterColon(s, p) # 0 THEN afterColon(s, p)
    ELSE IF p <= Len(s) /\ s[p] = "("
              /\ \E q \in (p + 2)..Len(s) :
                    /\ s[q] = ")"
                    /\ \A r \in (p + 1)..(q - 1) : isDot(s[r])
                    /\ afterColon(s, q + 1) # 0
         THEN afterColon(s,
                  (CHOOSE q \in (p + 2)..Len(s) :
                      /\ s[q] = ")"
                      /\ \A r \in (p + 1)..(q - 1) : isDot(s[r])
                      /\ afterColon(s, q + 1) # 0
                      /\ \A h \in (p + 2)..(q - 1) :
                            ~(s[h] = ")" /\ afterColon(s, h + 1) # 0)) + 1)
         ELSE 0

\* the first position from p on that holds no \s character
RECURSIVE afterSpaces(_, _)
afterSpaces(s, p) ==
    IF p <= Len(s) /\ isSpace(s[p]) THEN afterSpaces(s, p + 1) ELSE p

\* message.replace(/^(\w+)(\(.+?\))?!?:\s*/, '')
removePrefix(s) ==
    IF wordRun(s, 0) > 0 /\ afterScopeColon(s, wordRun(s, 0) + 1) # 0
    THEN SubSeq(s, afterSpaces(s, afterScopeColon(s, wordRun(s, 0) + 1)),
                Len(s))
    ELSE s

\* sha.substring(0, 7)
shortSha(sha) == SubSeq(sha, 1, IF Len(sha) < 7 THEN Len(sha) ELSE 7)

statusBadge(status) ==
    IF status = "added" THEN "green"
    ELSE IF status = "modified" THEN "blue"
    ELSE IF status = "removed" THEN "red"
    ELSE IF status = "renamed" THEN "yellow"
    ELSE "white"

\* file.additions || file.deletions ? (+a/-d) : ''
changeStats(file) ==
    IF file.additions # 0 \/ file.deletions # 0
    THEN <<" (+", file.additions, "/-", file.deletions, ")">>
    ELSE <<>>

\* the lines of one file (' stands for the backquote)
fileLines(file) ==
    << <<"    - ", statusBadge(file.status), " '", file.filename, "'">>
           \o changeStats(file) >>
    \o (IF file.previous_filename # "<undefined>" /\ file.status = "renamed"
        THEN << <<"      - _Renamed from '", file.previous_filename, "'_">> >>
        ELSE <<>>)

RECURSIVE filesLines(_, _)
filesLines(files, k) ==
    IF k > Len(files) THEN <<>>
    ELSE fileLines(files[k]) \o filesLines(files, k + 1)

\* the lines of one commit
commitLines(commit) ==
    << <<"- **", removePrefix(firstLine(Messages[commit.message])),
         "** ([", shortSha(commit.sha), "](", commit.url, "))">>,
       <<"  - _by ", commit.author.name, "_">> >>
    \o (IF Len(commit.files) > 0
        THEN << <<"  - **Files changed:** ", Len(commit.files)>> >>
                 \o filesLines(commit.files, 1)
        ELSE <<>>)

RECURSIVE commitsLines(_, _)
commitsLines(cs, k) ==
    IF k > Len(cs) THEN <<>>
    ELSE commitLines(cs[k]) \o commitsLines(cs, k + 1)

RECURSIVE groupsLines(_, _)
groupsLines(groups, k) ==
    IF k > Len(groups) THEN <<>>
    ELSE << <<"## ", groups[k].category>>, <<>> >>
             \o commitsLines(groups[k].commits, 1)
             \o << <<>> >>
             \o groupsLines(groups, k + 1)

\* the hours of a day
HoursOfDay == 24

\* new Date().toISOString().split('T')[0] at the time t, in hours
dateOf(t) == t \div HoursOfDay

\* startRef && endRef
bothGiven(startRef, endRef) ==
    startRef \notin {"<undefined>", ""} /\ endRef \notin {"<undefined>", ""}

\* formatAsMarkdown with the Range line under startRef || endRef
formatAsMarkdownEitherRef(groups, repoName, startRef, endRef, t) ==
    << <<"# Changelog">>, <<>>, <<"**Repository:** ", repoName>> >>
    \o (IF startRef \notin {"<undefined>", ""}
           \/ endRef \notin {"<undefined>", ""}
        THEN << <<"**Range:** ", startRef, " -> ", endRef>> >>
        ELSE <<>>)
    \o << <<"**Generated:** ", dateOf(t)>>, <<>>, <<"---">>, <<>> >>
    \o groupsLines(groups, 1)

\* formatAsMarkdown called at the time t
formatAsMarkdown(groups, repoName, startRef, endRef, t) ==
    << <<"# Changelog">>, <<>>, <<"**Repository:** ", repoName>> >>
    \o (IF bothGiven(startRef, endRef)
        THEN << <<"**Range:** ", startRef, " -> ", endRef>> >>
        ELSE <<>>)
    \o << <<"**Generated:** ", dateOf(t)>>, <<>>, <<"---">>, <<>> >>
    \o groupsLines(groups, 1)

\* c.stats?.additions || 0 and c.stats?.deletions || 0
statOf(commit, field) ==
    IF field \in DOMAIN commit.stats THEN commit.stats[field] ELSE 0

RECURSIVE reduceStat(_, _, _)
reduceStat(cs, field, k) ==
    IF k > Len(cs) THEN 0
    ELSE statOf(cs[k], field) + reduceStat(cs, field, k + 1)

\* Math.min and Math.max over the times; they are called on a list that is
\* not empty
minTime(cs) ==
    CHOOSE t \in {getTime(cs[k].author.date) : k \in DOMAIN cs} :
        \A k \in DOMAIN cs : t <= getTime(cs[k].author.date)

maxTime(cs) ==
    CHOOSE t \in {getTime(cs[k].author.date) : k \in DOMAIN cs} :
        \A k \in DOMAIN cs : t >= getTime(cs[k].author.date)

\* formatAsJson called at the time t; on no commits Math.min() is Infinity
\* and toISOString throws a RangeError
formatAsJson(groups, repoName, startRef, endRef, t) ==
    LET allCommits == flatMapCommits(groups)
    IN  IF Len(allCommits) = 0
        THEN [threw |-> TRUE, value |-> <<>>]
        ELSE [threw |-> FALSE,
              value |->
                [ commits |-> groups,
                  stats |->
                    [ total_commits |-> Len(allCommits),
                      total_additions |->
                          reduceStat(allCommits, "additions", 1),
                      total_deletions |->
                          reduceStat(allCommits, "deletions", 1),
                      contributors |->
                          Cardinality({allCommits[k].author.email :
                                          k \in DOMAIN allCommits}) ],
                  metadata |->
                    [ repo |-> repoName,
                      start_date |-> toISOString(minTime(allCommits)),
                      end_date |-> toISOString(maxTime(allCommits)),
                      generated_at |-> toISOString(t) ] ] ]

\* the commit lists the renderers are tried on
RenderInputs ==
    { [k \in DOMAIN picks |-> RenderPool[picks[k]]] :
        picks \in SeqsUpTo(DOMAIN RenderPool, MaxRenderCommits) }

\* the references: validateInput lets no empty name pass
RenderRefs == {"<undefined>", "v1", "v2"}

\* the calls of formatAsMarkdown on one input
MaxRenderCalls == 2

\* the clock of the renderers stops here, in hours
MaxRenderHours == 36

renderRest ==
    <<repoCache, changelogCache, tokenHealthCache, inst, nops, cop, hist,
      storedBy>>

\* groupCommitsByType on the commits
RenderGroups ==
    /\ GroupCommits

\* formatAsMarkdown on the groups
RenderMarkdown ==
    /\ gpc = "done"
    /\ Len(rendered.markdown) < MaxRenderCalls
    /\ rendered' =
           [rendered EXCEPT !.markdown =
               Append(@, [at |-> now,
                          text |-> formatAsMarkdown(result.value,
                                       rendered.repoName, rendered.startRef,
                                       rendered.endRef, now)])]
    /\ UNCHANGED <<now, renderRest, groupVars, fetchVars, routeVars, keyVars,
                   apiVars, limiterVars>>

\* formatAsJson on the groups
RenderJson ==
    /\ gpc = "done"
    /\ rendered.json = <<>>
    /\ rendered' =
           [rendered EXCEPT !.json =
               <<formatAsJson(result.value, rendered.repoName,
                              rendered.startRef, rendered.endRef, now)>>]
    /\ UNCHANGED <<now, renderRest, groupVars, fetchVars, routeVars, keyVars,
                   apiVars, limiterVars>>

\* time passes: half a day
RenderClock ==
    /\ \E d \in {HoursOfDay \div 2} :
          /\ now + d <= MaxRenderHours
          /\ now' = now + d
    /\ UNCHANGED <<rendered, renderRest, groupVars, fetchVars, routeVars,
                   keyVars, apiVars, limiterVars>>

InitRender ==
    /\ commits \in RenderInputs
    /\ result = [threw |-> FALSE, value |-> <<>>]
    /\ gpc = "call"
    /\ now = 0
    /\ \E startRef \in RenderRefs, endRef \in RenderRefs :
          rendered = [noRendered EXCEPT !.repoName = "acme/app",
                                        !.startRef = startRef,
                                        !.endRef = endRef]
    /\ repoCache = <<>>
    /\ changelogCache = <<>>
    /\ tokenHealthCache = <<>>
    /\ inst = "commits"
    /\ nops = 0
    /\ cop = noCacheOp
    /\ hist = <<>>
    /\ keyIdle
    /\ handlersIdle
    /\ limiterIdle
    /\ ownerIdle
    /\ tablesIdle
    /\ fetchIdle
    /\ routeIdle

NextRender ==
    \/ RenderGroups
    \/ RenderMarkdown
    \/ RenderJson
    \/ RenderClock

SpecRender == InitRender /\ [][NextRender]_vars


\* the quotas of SECURITY.md, per window of the limiter
documentedLimits ==
    [api      |-> [requests |-> 60, minutes |-> 1],
     strict   |-> [requests |-> 5, minutes |-> 15],
     auth     |-> [requests |-> 10, minutes |-> 15],
     generate |-> [requests |-> 10, minutes |-> 5]]

\* C21: for every client and every limiter, the requests the limiter allows
\* within one window of its own never exceed its quota: 60 a minute for the
\* standard limiter, 5 in 15 minutes for the sensitive operations, 10 in 5
\* minutes for the generation.
C21_QuotaPerWindow ==
    through.limiter \in {"api", "strict", "generate"} =>
        served.allowed <= documentedLimits[through.limiter].requests

\* the followed limiter has just answered the followed client
answeredByFollowed ==
    /\ verdict.given
    /\ verdict.limiter = through.limiter

\* C28: a limiter answers 429 only when it has itself counted at least
\* maxRequests requests of the client in the current window, and the window
\* a request is counted in has the length of the limiter that counts it.
C28_LimitersAreSeparate ==
    /\ (answeredByFollowed /\ verdict.limited) =>
           verdict.counted >= rateLimiters[through.limiter].maxRequests
    /\ answeredByFollowed =>
           verdict.windowMs = rateLimiters[through.limiter].windowMs

\* the entry of the followed client
followedEntry == rateLimitStore[through.identifier]

\* C29 (steps): a rejected request leaves the resetTime of the client as it
\* was, and a request that arrives after the resetTime has passed is
\* allowed and leaves the entry at count 1 with a window that starts then.
C29_Step ==
    (verdict'.given /\ rateLimitStore' # rateLimitStore) =>
        /\ verdict'.limited =>
               /\ through.identifier \in DOMAIN rateLimitStore
               /\ rateLimitStore'[through.identifier].resetTime
                      = followedEntry.resetTime
               /\ ~(followedEntry.resetTime < now)
        /\ windowOver(rateLimitStore, through.identifier, now) =>
               /\ ~verdict'.limited
               /\ rateLimitStore'[through.identifier] =
                      [count |-> 1,
                       resetTime |->
                           now + rateLimiters[verdict'.limiter].windowMs]

\* the followed client was rejected and the clock can still pass the end
\* of its window
rejectedInTime ==
    /\ verdict.given
    /\ verdict.limited
    /\ \E d \in LimiterSteps :
          followedEntry.resetTime + d <= MaxLimiterMinutes * 60 * 1000

\* a request of the followed client was allowed
servedAgain ==
    /\ verdict.given
    /\ ~verdict.limited

\* C29: a rate-limited client is eventually served again: rejections do not
\* extend the window, and the first request after the resetTime has passed
\* is allowed and starts a fresh window with the counter at 1.
C29_ServedAgain ==
    /\ [][C29_Step]_vars
    /\ rejectedInTime ~> servedAgain

\* a request of the followed client, rejected before, arrives after the
\* resetTime has passed and opens a fresh window
C29_Witness ==
    /\ verdict.given
    /\ verdict.fresh
    /\ ~verdict.limited
    /\ verdict.over > rateLimiters[through.limiter].maxRequests
    /\ followedEntry.count = 1
    /\ followedEntry.resetTime
           = now + rateLimiters[verdict.limiter].windowMs

\* the types the claim names: categoryMap without its breaking entry
claimedTypes ==
    { categoryMapOwn[i][1] : i \in DOMAIN categoryMapOwn }
        \ { <<"b","r","e","a","k","i","n","g">> }

\* the bucket the claim gives a message
claimedBucket(text) ==
    LET message == toLowerCase(text)
    IN  IF isBreaking(message) THEN "breaking"
        ELSE IF matches(message) /\ matchType(message) \in claimedTypes
             THEN categoryMap(matchType(message))
             ELSE "other"

claimedBuckets == [m \in MessageIds |-> claimedBucket(Messages[m])]

\* C25: a commit is in the Breaking Changes group exactly when its
\* lower-cased message contains 'breaking change' or '!:'; otherwise it is
\* in the group of its type when the type is one of feat, fix, perf, docs,
\* style, refactor, test, build, ci, chore, and in Other Changes for every
\* other message.
C25_BucketByMarkerThenType ==
    gpc # "call" =>
        /\ ~result.threw
        /\ \A k \in DOMAIN commits :
              \E i \in DOMAIN result.value :
                  /\ result.value[i].category
                         = categoryLabels[claimedBuckets[commits[k].message]]
                  /\ groupsHolding(result.value, commits[k]) = {i}

\* the line that carries the date of the call
isGeneratedLine(line) == Len(line) > 0 /\ line[1] = "**Generated:** "

isRangeLine(line) == Len(line) > 0 /\ line[1] = "**Range:** "

\* two texts are the same but for their Generated lines
sameButGenerated(a, b) ==
    /\ Len(a) = Len(b)
    /\ \A i \in DOMAIN a :
          \/ isGeneratedLine(a[i]) /\ isGeneratedLine(b[i])
          \/ a[i] = b[i]

\* C22: two calls of formatAsMarkdown with the same groups, repository name
\* and references return the same text but for the Generated line, and the
\* text has the Range line exactly when both references are given.
C22_MarkdownDeterministic ==
    /\ \A i, j \in DOMAIN rendered.markdown :
          sameButGenerated(rendered.markdown[i].text,
                           rendered.markdown[j].text)
    /\ \A i \in DOMAIN rendered.markdown :
          LET text == rendered.markdown[i].text
          IN  /\ Cardinality({k \in DOMAIN text : isGeneratedLine(text[k])})
                     = 1
              /\ Cardinality({k \in DOMAIN text : isRangeLine(text[k])})
                     = (IF rendered.startRef # "<undefined>"
                           /\ rendered.endRef # "<undefined>"
                        THEN 1 ELSE 0)

\* two calls on different days, on groups with files, with only one of the
\* references given
C22_Witness ==
    /\ Len(rendered.markdown) = 2
    /\ dateOf(rendered.markdown[1].at) # dateOf(rendered.markdown[2].at)
    /\ rendered.markdown[1].text # rendered.markdown[2].text
    /\ Len(result.value) = 2
    /\ \E k \in DOMAIN commits : Len(commits[k].files) > 1
    /\ rendered.startRef = "<undefined>"
    /\ rendered.endRef = "v2"

\* the sums of the claim, over the commit list itself
RECURSIVE sumOfStat(_, _)
sumOfStat(cs, field) ==
    IF cs = <<>> THEN 0
    ELSE (IF field \in DOMAIN Head(cs).stats THEN Head(cs).stats[field]
          ELSE 0) + sumOfStat(Tail(cs), field)

\* what the claim says of the JSON rendered from the commits
jsonAsClaimed(json) ==
    /\ json.stats.total_commits = Len(commits)
    /\ json.stats.total_additions = sumOfStat(commits, "additions")
    /\ json.stats.total_deletions = sumOfStat(commits, "deletions")
    /\ json.stats.contributors
           = Cardinality({commits[k].author.email : k \in DOMAIN commits})
    /\ getTime(json.metadata.start_date) <= getTime(json.metadata.end_date)
    /\ \A k \in DOMAIN commits :
          /\ getTime(json.metadata.start_date)
                 <= getTime(commits[k].author.date)
          /\ getTime(json.metadata.end_date)
                 >= getTime(commits[k].author.date)
    /\ \E k \in DOMAIN commits :
          getTime(json.metadata.start_date) = getTime(commits[k].author.date)
    /\ \E k \in DOMAIN commits :
          getTime(json.metadata.end_date) = getTime(commits[k].author.date)

\* C24: for every commit list that is not empty, formatAsJson of its groups
\* reports total_commits = the length of the list, the sums of additions
\* and deletions with a missing stats counted as 0, the number of distinct
\* author emails, and as start_date and end_date the least and the greatest
\* author date.
C24_JsonTotals ==
    (gpc # "call" /\ commits # <<>>) =>
        /\ ~result.threw
        /\ \A i \in DOMAIN rendered.json :
              /\ ~rendered.json[i].threw
              /\ jsonAsClaimed(rendered.json[i].value)

\* the URLSearchParams of the commit-list request of fetchGitLabCommits,
\* called with refName, since and until
gitlabListParams(args) ==
    (IF args[1] # Undefined THEN <<(<<"ref_name", args[1]>>)>> ELSE <<>>)
        \o (IF args[2] # Undefined THEN <<(<<"since", args[2]>>)>> ELSE <<>>)
        \o (IF args[3] # Undefined THEN <<(<<"until", args[3]>>)>> ELSE <<>>)
        \o <<(<<"per_page", "100">>)>>

\* C23: for a GitLab repository and a request that gives both startRef and
\* endRef, the commit-list request has ref_name = endRef, and no other
\* parameter of it carries one of the references.
C23_GitLabByEndRefOnly ==
    (/\ rpc = "fetching"
     /\ call.provider = "gitlab"
     /\ req.startRef # Undefined
     /\ req.endRef # Undefined) =>
        LET params == gitlabListParams(call.args)
        IN  /\ \E k \in DOMAIN params : params[k] = <<"ref_name", req.endRef>>
            /\ \A k \in DOMAIN params :
                  params[k][2] \in {req.startRef, req.endRef} =>
                      params[k] = <<"ref_name", req.endRef>>

\* C26: a hit of the commit cache in the generation route is a hit of an
\* entry that a request of the same user stored: no user is given commits
\* that were fetched with the token of another.
C26_HitOfOwnEntry ==
    (lookup.route = "generate" /\ lookup.hit) =>
        <<commitsKey(routeCacheKey(theRepo, req.startRef, req.endRef)),
          req.user>> \in storedBy

\* the keys of an instance whose repoId or userId is the id
keysOfId(which, id) ==
    {wrapperKey(which, a) : a \in {b \in CacheArgs(which) : b[1] = id}}

\* C27: RepoCache.invalidate(userId), TokenHealthCache.invalidate(userId)
\* and CommitCache.invalidate(repoId) remove only entries whose userId or
\* repoId equals the argument; the entries of every other id, an id that
\* starts with the argument included, stay as they were.
C27_InvalidatesOneIdOnly ==
    (cop.op = "invalidate" /\ inst \in {"repos", "tokenHealth", "commits"}) =>
        \A id \in CacheIds :
            cop.key = fragmentOf(inst, id) =>
                cop.removed \subseteq keysOfId(inst, id)

\* both handlers are through with their requests
bothCompleted == discover.pc = "idle" /\ connect.pc = "idle"

\* the key of the repository list of the last discovery
discoverKey ==
    wrapperKey("repos", userArgs(discover.req.user, discover.req.provider))

\* the statement of C30 as it was made: when RepoCache.invalidate(user,
\* provider) ran while a discovery of the same user and provider was in
\* flight, then after both completed the cache holds no list that was fetched
\* before the invalidation.
C30_NoListFromBeforeInvalidation ==
    bothCompleted => stale.repos \cap keysOf(repoCache) = {}

\* C30: RepoCache.invalidate(user, provider) removes the entry held when it
\* runs, and a discovery that completes with a list that is not empty leaves
\* that list in the cache under its key, with the time of the set, whether
\* the list arrived before an invalidation or not: the last write wins.
C30_Step ==
    /\ (connect.pc = "inserting" /\ connect'.resp.status = 200) =>
          wrapperKey("repos", userArgs(connect.req.user,
                                       connect.req.row.provider))
              \notin keysOf(repoCache')
    /\ (/\ discoverHolds
        /\ discover'.pc = "idle"
        /\ discover'.resp.status = 200
        /\ Len(discover'.resp.body) > 0) =>
          LET key == wrapperKey("repos", userArgs(discover'.req.user,
                                                  discover'.req.provider))
          IN  /\ key \in keysOf(repoCache')
              /\ entryOf(repoCache', key).value = discover'.resp.body
              /\ entryOf(repoCache', key).start = now

C30_LastWriteWins == [][C30_Step]_vars

\* the invalidation ran while the discovery held the answer of the provider,
\* both completed, and the cache holds that list
C30_Witness ==
    /\ bothCompleted
    /\ connect.resp.status = 200
    /\ discover.resp.status = 200
    /\ discoverKey \in stale.repos
    /\ discoverKey \in keysOf(repoCache)
    /\ entryOf(repoCache, discoverKey).value = discover.resp.body

====
